---------------------------- MODULE Spec2Model ----------------------------
(***************************************************************************)
(* A model of the TLS key-share subsystem of ssl/ssl_key_share.cc: the     *)
(* classical EC, X25519, CECPQ2, generic PQ KEM (OQS) and hybrid           *)
(* (ClassicalWithOQS) backends behind the SSLKeyShare contract.            *)
(*                                                                         *)
(* Byte strings are sequences of integers 0..255.  The cryptographic       *)
(* primitives the file calls (EC arithmetic, X25519, HRSS, the OQS KEMs)   *)
(* are external to it; they are modelled by small groups that keep their   *)
(* algebra (a prime-order curve over F_17, the order-11 subgroup of the    *)
(* units modulo 23), so that key agreement is computed, not assumed.       *)
(***************************************************************************)
EXTENDS Integers, Sequences, FiniteSets, TLC

(***************************************************************************)
(* Bounds of the model.                                                    *)
(***************************************************************************)
\* Number of distinct values the random generator may return in one draw.
MaxRand == 2

(***************************************************************************)
(* Alerts and group identifiers.                                           *)
(***************************************************************************)
SSL_AD_DECODE_ERROR == "DECODE_ERROR"
SSL_AD_INTERNAL_ERROR == "INTERNAL_ERROR"
\* The value of *out_alert when the callee never stored to it.
NoAlert == "NONE"

SSL_CURVE_SECP256R1 == 23
SSL_CURVE_X25519 == 29
SSL_CURVE_CECPQ2 == 16696
SSL_CURVE_KYBER512 == 527
SSL_CURVE_P256_KYBER512 == 12047

NID_X9_62_prime256v1 == 415

\* The group ids the model instantiates: one per backend class.
ModelledGroups ==
    { SSL_CURVE_SECP256R1, SSL_CURVE_X25519, SSL_CURVE_CECPQ2,
      SSL_CURVE_KYBER512, SSL_CURVE_P256_KYBER512 }

(***************************************************************************)
(* The named-group registry.  The file names group ids and NIDs by the     *)
(* constants of openssl/ssl.h and openssl/nid.h: SSL_CURVE and NID give    *)
(* their values.  The NIDs of the PQ groups are numbered in the order of   *)
(* the registry, as consecutive entries of the object table.               *)
(***************************************************************************)
SSL_CURVE ==
    [ SECP224R1 |-> 21, SECP256R1 |-> SSL_CURVE_SECP256R1,
      SECP384R1 |-> 24, SECP521R1 |-> 25, X25519 |-> SSL_CURVE_X25519,
      CECPQ2 |-> SSL_CURVE_CECPQ2, OQS_KEM_DEFAULT |-> 511,
      P256_OQS_KEM_DEFAULT |-> 12287, BIKE1L1CPA |-> 512,
      P256_BIKE1L1CPA |-> 12032, BIKE1L3CPA |-> 513,
      P384_BIKE1L3CPA |-> 12033, BIKE1L1FO |-> 514,
      P256_BIKE1L1FO |-> 12034, BIKE1L3FO |-> 515,
      P384_BIKE1L3FO |-> 12035, FRODO640AES |-> 516,
      P256_FRODO640AES |-> 12036, FRODO640SHAKE |-> 517,
      P256_FRODO640SHAKE |-> 12037, FRODO976AES |-> 518,
      P384_FRODO976AES |-> 12038, FRODO976SHAKE |-> 519,
      P384_FRODO976SHAKE |-> 12039, FRODO1344AES |-> 520,
      P521_FRODO1344AES |-> 12040, FRODO1344SHAKE |-> 521,
      P521_FRODO1344SHAKE |-> 12041, KYBER512 |-> SSL_CURVE_KYBER512,
      P256_KYBER512 |-> SSL_CURVE_P256_KYBER512, KYBER768 |-> 528,
      P384_KYBER768 |-> 12048, KYBER1024 |-> 529, P521_KYBER1024 |-> 12049,
      KYBER90S512 |-> 553, P256_KYBER90S512 |-> 12073, KYBER90S768 |-> 554,
      P384_KYBER90S768 |-> 12074, KYBER90S1024 |-> 555,
      P521_KYBER90S1024 |-> 12075, NTRU_HPS2048509 |-> 532,
      P256_NTRU_HPS2048509 |-> 12052, NTRU_HPS2048677 |-> 533,
      P384_NTRU_HPS2048677 |-> 12053, NTRU_HPS4096821 |-> 534,
      P521_NTRU_HPS4096821 |-> 12054, NTRU_HRSS701 |-> 535,
      P384_NTRU_HRSS701 |-> 12055, LIGHTSABER |-> 536,
      P256_LIGHTSABER |-> 12056, SABER |-> 537, P384_SABER |-> 12057,
      FIRESABER |-> 538, P521_FIRESABER |-> 12058, SIDHP434 |-> 539,
      P256_SIDHP434 |-> 12059, SIDHP503 |-> 540, P256_SIDHP503 |-> 12060,
      SIDHP610 |-> 541, P384_SIDHP610 |-> 12061, SIDHP751 |-> 542,
      P521_SIDHP751 |-> 12062, SIKEP434 |-> 543, P256_SIKEP434 |-> 12063,
      SIKEP503 |-> 544, P256_SIKEP503 |-> 12064, SIKEP610 |-> 545,
      P384_SIKEP610 |-> 12065, SIKEP751 |-> 546, P521_SIKEP751 |-> 12066,
      HQC128_1_CCA2 |-> 556, P256_HQC128_1_CCA2 |-> 12076,
      HQC192_1_CCA2 |-> 557, P384_HQC192_1_CCA2 |-> 12077,
      HQC192_2_CCA2 |-> 558, P384_HQC192_2_CCA2 |-> 12078,
      HQC256_1_CCA2 |-> 559, P521_HQC256_1_CCA2 |-> 12079,
      HQC256_2_CCA2 |-> 560, P521_HQC256_2_CCA2 |-> 12080,
      HQC256_3_CCA2 |-> 561, P521_HQC256_3_CCA2 |-> 12081 ]

NID ==
    [ secp224r1 |-> 713, X9_62_prime256v1 |-> NID_X9_62_prime256v1,
      secp384r1 |-> 715, secp521r1 |-> 716, X25519 |-> 948, CECPQ2 |-> 959,
      oqs_kem_default |-> 1006, p256_oqs_kem_default |-> 1007,
      bike1l1cpa |-> 1008, p256_bike1l1cpa |-> 1009, bike1l3cpa |-> 1010,
      p384_bike1l3cpa |-> 1011, bike1l1fo |-> 1012,
      p256_bike1l1fo |-> 1013, bike1l3fo |-> 1014, p384_bike1l3fo |-> 1015,
      frodo640aes |-> 1016, p256_frodo640aes |-> 1017,
      frodo640shake |-> 1018, p256_frodo640shake |-> 1019,
      frodo976aes |-> 1020, p384_frodo976aes |-> 1021,
      frodo976shake |-> 1022, p384_frodo976shake |-> 1023,
      frodo1344aes |-> 1024, p521_frodo1344aes |-> 1025,
      frodo1344shake |-> 1026, p521_frodo1344shake |-> 1027,
      kyber512 |-> 1028, p256_kyber512 |-> 1029, kyber768 |-> 1030,
      p384_kyber768 |-> 1031, kyber1024 |-> 1032, p521_kyber1024 |-> 1033,
      kyber90s512 |-> 1034, p256_kyber90s512 |-> 1035,
      kyber90s768 |-> 1036, p384_kyber90s768 |-> 1037,
      kyber90s1024 |-> 1038, p521_kyber90s1024 |-> 1039,
      ntru_hps2048509 |-> 1040, p256_ntru_hps2048509 |-> 1041,
      ntru_hps2048677 |-> 1042, p384_ntru_hps2048677 |-> 1043,
      ntru_hps4096821 |-> 1044, p521_ntru_hps4096821 |-> 1045,
      ntru_hrss701 |-> 1046, p384_ntru_hrss701 |-> 1047,
      lightsaber |-> 1048, p256_lightsaber |-> 1049, saber |-> 1050,
      p384_saber |-> 1051, firesaber |-> 1052, p521_firesaber |-> 1053,
      sidhp434 |-> 1054, p256_sidhp434 |-> 1055, sidhp503 |-> 1056,
      p256_sidhp503 |-> 1057, sidhp610 |-> 1058, p384_sidhp610 |-> 1059,
      sidhp751 |-> 1060, p521_sidhp751 |-> 1061, sikep434 |-> 1062,
      p256_sikep434 |-> 1063, sikep503 |-> 1064, p256_sikep503 |-> 1065,
      sikep610 |-> 1066, p384_sikep610 |-> 1067, sikep751 |-> 1068,
      p521_sikep751 |-> 1069, hqc128_1_cca2 |-> 1070,
      p256_hqc128_1_cca2 |-> 1071, hqc192_1_cca2 |-> 1072,
      p384_hqc192_1_cca2 |-> 1073, hqc192_2_cca2 |-> 1074,
      p384_hqc192_2_cca2 |-> 1075, hqc256_1_cca2 |-> 1076,
      p521_hqc256_1_cca2 |-> 1077, hqc256_2_cca2 |-> 1078,
      p521_hqc256_2_cca2 |-> 1079, hqc256_3_cca2 |-> 1080,
      p521_hqc256_3_cca2 |-> 1081 ]

\* kNamedGroups: {nid, group_id, name, alias}, in the order of the file.
kNamedGroups ==
    << [nid |-> NID.secp224r1, group_id |-> SSL_CURVE.SECP224R1,
       name |-> "P-224", alias |-> "secp224r1"],
       [nid |-> NID.X9_62_prime256v1, group_id |-> SSL_CURVE.SECP256R1,
       name |-> "P-256", alias |-> "prime256v1"],
       [nid |-> NID.secp384r1, group_id |-> SSL_CURVE.SECP384R1,
       name |-> "P-384", alias |-> "secp384r1"],
       [nid |-> NID.secp521r1, group_id |-> SSL_CURVE.SECP521R1,
       name |-> "P-521", alias |-> "secp521r1"],
       [nid |-> NID.X25519, group_id |-> SSL_CURVE.X25519,
       name |-> "X25519", alias |-> "x25519"],
       [nid |-> NID.CECPQ2, group_id |-> SSL_CURVE.CECPQ2,
       name |-> "CECPQ2", alias |-> "CECPQ2"],
       [nid |-> NID.oqs_kem_default, group_id |-> SSL_CURVE.OQS_KEM_DEFAULT,
       name |-> "oqs_kem_default", alias |-> "oqs_kem_default"],
       [nid |-> NID.p256_oqs_kem_default, group_id |-> SSL_CURVE.P256_OQS_KEM_DEFAULT,
       name |-> "p256_oqs_kem_default", alias |-> "p256_oqs_kem_default"],
       [nid |-> NID.bike1l1cpa, group_id |-> SSL_CURVE.BIKE1L1CPA,
       name |-> "bike1l1cpa", alias |-> "bike1l1cpa"],
       [nid |-> NID.p256_bike1l1cpa, group_id |-> SSL_CURVE.P256_BIKE1L1CPA,
       name |-> "p256_bike1l1cpa", alias |-> "p256_bike1l1cpa"],
       [nid |-> NID.bike1l3cpa, group_id |-> SSL_CURVE.BIKE1L3CPA,
       name |-> "bike1l3cpa", alias |-> "bike1l3cpa"],
       [nid |-> NID.p384_bike1l3cpa, group_id |-> SSL_CURVE.P384_BIKE1L3CPA,
       name |-> "p384_bike1l3cpa", alias |-> "p384_bike1l3cpa"],
       [nid |-> NID.bike1l1fo, group_id |-> SSL_CURVE.BIKE1L1FO,
       name |-> "bike1l1fo", alias |-> "bike1l1fo"],
       [nid |-> NID.p256_bike1l1fo, group_id |-> SSL_CURVE.P256_BIKE1L1FO,
       name |-> "p256_bike1l1fo", alias |-> "p256_bike1l1fo"],
       [nid |-> NID.bike1l3fo, group_id |-> SSL_CURVE.BIKE1L3FO,
       name |-> "bike1l3fo", alias |-> "bike1l3fo"],
       [nid |-> NID.p384_bike1l3fo, group_id |-> SSL_CURVE.P384_BIKE1L3FO,
       name |-> "p384_bike1l3fo", alias |-> "p384_bike1l3fo"],
       [nid |-> NID.frodo640aes, group_id |-> SSL_CURVE.FRODO640AES,
       name |-> "frodo640aes", alias |-> "frodo640aes"],
       [nid |-> NID.p256_frodo640aes, group_id |-> SSL_CURVE.P256_FRODO640AES,
       name |-> "p256_frodo640aes", alias |-> "p256_frodo640aes"],
       [nid |-> NID.frodo640shake, group_id |-> SSL_CURVE.FRODO640SHAKE,
       name |-> "frodo640shake", alias |-> "frodo640shake"],
       [nid |-> NID.p256_frodo640shake, group_id |-> SSL_CURVE.P256_FRODO640SHAKE,
       name |-> "p256_frodo640shake", alias |-> "p256_frodo640shake"],
       [nid |-> NID.frodo976aes, group_id |-> SSL_CURVE.FRODO976AES,
       name |-> "frodo976aes", alias |-> "frodo976aes"],
       [nid |-> NID.p384_frodo976aes, group_id |-> SSL_CURVE.P384_FRODO976AES,
       name |-> "p384_frodo976aes", alias |-> "p384_frodo976aes"],
       [nid |-> NID.frodo976shake, group_id |-> SSL_CURVE.FRODO976SHAKE,
       name |-> "frodo976shake", alias |-> "frodo976shake"],
       [nid |-> NID.p384_frodo976shake, group_id |-> SSL_CURVE.P384_FRODO976SHAKE,
       name |-> "p384_frodo976shake", alias |-> "p384_frodo976shake"],
       [nid |-> NID.frodo1344aes, group_id |-> SSL_CURVE.FRODO1344AES,
       name |-> "frodo1344aes", alias |-> "frodo1344aes"],
       [nid |-> NID.p521_frodo1344aes, group_id |-> SSL_CURVE.P521_FRODO1344AES,
       name |-> "p521_frodo1344aes", alias |-> "p521_frodo1344aes"],
       [nid |-> NID.frodo1344shake, group_id |-> SSL_CURVE.FRODO1344SHAKE,
       name |-> "frodo1344shake", alias |-> "frodo1344shake"],
       [nid |-> NID.p521_frodo1344shake, group_id |-> SSL_CURVE.P521_FRODO1344SHAKE,
       name |-> "p521_frodo1344shake", alias |-> "p521_frodo1344shake"],
       [nid |-> NID.kyber512, group_id |-> SSL_CURVE.KYBER512,
       name |-> "kyber512", alias |-> "kyber512"],
       [nid |-> NID.p256_kyber512, group_id |-> SSL_CURVE.P256_KYBER512,
       name |-> "p256_kyber512", alias |-> "p256_kyber512"],
       [nid |-> NID.kyber768, group_id |-> SSL_CURVE.KYBER768,
       name |-> "kyber768", alias |-> "kyber768"],
       [nid |-> NID.p384_kyber768, group_id |-> SSL_CURVE.P384_KYBER768,
       name |-> "p384_kyber768", alias |-> "p384_kyber768"],
       [nid |-> NID.kyber1024, group_id |-> SSL_CURVE.KYBER1024,
       name |-> "kyber1024", alias |-> "kyber1024"],
       [nid |-> NID.p521_kyber1024, group_id |-> SSL_CURVE.P521_KYBER1024,
       name |-> "p521_kyber1024", alias |-> "p521_kyber1024"],
       [nid |-> NID.kyber90s512, group_id |-> SSL_CURVE.KYBER90S512,
       name |-> "kyber90s512", alias |-> "kyber90s512"],
       [nid |-> NID.p256_kyber90s512, group_id |-> SSL_CURVE.P256_KYBER90S512,
       name |-> "p256_kyber90s512", alias |-> "p256_kyber90s512"],
       [nid |-> NID.kyber90s768, group_id |-> SSL_CURVE.KYBER90S768,
       name |-> "kyber90s768", alias |-> "kyber90s768"],
       [nid |-> NID.p384_kyber90s768, group_id |-> SSL_CURVE.P384_KYBER90S768,
       name |-> "p384_kyber90s768", alias |-> "p384_kyber90s768"],
       [nid |-> NID.kyber90s1024, group_id |-> SSL_CURVE.KYBER90S1024,
       name |-> "kyber90s1024", alias |-> "kyber90s1024"],
       [nid |-> NID.p521_kyber90s1024, group_id |-> SSL_CURVE.P521_KYBER90S1024,
       name |-> "p521_kyber90s1024", alias |-> "p521_kyber90s1024"],
       [nid |-> NID.ntru_hps2048509, group_id |-> SSL_CURVE.NTRU_HPS2048509,
       name |-> "ntru_hps2048509", alias |-> "ntru_hps2048509"],
       [nid |-> NID.p256_ntru_hps2048509, group_id |-> SSL_CURVE.P256_NTRU_HPS2048509,
       name |-> "p256_ntru_hps2048509", alias |-> "p256_ntru_hps2048509"],
       [nid |-> NID.ntru_hps2048677, group_id |-> SSL_CURVE.NTRU_HPS2048677,
       name |-> "ntru_hps2048677", alias |-> "ntru_hps2048677"],
       [nid |-> NID.p384_ntru_hps2048677, group_id |-> SSL_CURVE.P384_NTRU_HPS2048677,
       name |-> "p384_ntru_hps2048677", alias |-> "p384_ntru_hps2048677"],
       [nid |-> NID.ntru_hps4096821, group_id |-> SSL_CURVE.NTRU_HPS4096821,
       name |-> "ntru_hps4096821", alias |-> "ntru_hps4096821"],
       [nid |-> NID.p521_ntru_hps4096821, group_id |-> SSL_CURVE.P521_NTRU_HPS4096821,
       name |-> "p521_ntru_hps4096821", alias |-> "p521_ntru_hps4096821"],
       [nid |-> NID.ntru_hrss701, group_id |-> SSL_CURVE.NTRU_HRSS701,
       name |-> "ntru_hrss701", alias |-> "ntru_hrss701"],
       [nid |-> NID.p384_ntru_hrss701, group_id |-> SSL_CURVE.P384_NTRU_HRSS701,
       name |-> "p384_ntru_hrss701", alias |-> "p384_ntru_hrss701"],
       [nid |-> NID.lightsaber, group_id |-> SSL_CURVE.LIGHTSABER,
       name |-> "lightsaber", alias |-> "lightsaber"],
       [nid |-> NID.p256_lightsaber, group_id |-> SSL_CURVE.P256_LIGHTSABER,
       name |-> "p256_lightsaber", alias |-> "p256_lightsaber"],
       [nid |-> NID.saber, group_id |-> SSL_CURVE.SABER,
       name |-> "saber", alias |-> "saber"],
       [nid |-> NID.p384_saber, group_id |-> SSL_CURVE.P384_SABER,
       name |-> "p384_saber", alias |-> "p384_saber"],
       [nid |-> NID.firesaber, group_id |-> SSL_CURVE.FIRESABER,
       name |-> "firesaber", alias |-> "firesaber"],
       [nid |-> NID.p521_firesaber, group_id |-> SSL_CURVE.P521_FIRESABER,
       name |-> "p521_firesaber", alias |-> "p521_firesaber"],
       [nid |-> NID.sidhp434, group_id |-> SSL_CURVE.SIDHP434,
       name |-> "sidhp434", alias |-> "sidhp434"],
       [nid |-> NID.p256_sidhp434, group_id |-> SSL_CURVE.P256_SIDHP434,
       name |-> "p256_sidhp434", alias |-> "p256_sidhp434"],
       [nid |-> NID.sidhp503, group_id |-> SSL_CURVE.SIDHP503,
       name |-> "sidhp503", alias |-> "sidhp503"],
       [nid |-> NID.p256_sidhp503, group_id |-> SSL_CURVE.P256_SIDHP503,
       name |-> "p256_sidhp503", alias |-> "p256_sidhp503"],
       [nid |-> NID.sidhp610, group_id |-> SSL_CURVE.SIDHP610,
       name |-> "sidhp610", alias |-> "sidhp610"],
       [nid |-> NID.p384_sidhp610, group_id |-> SSL_CURVE.P384_SIDHP610,
       name |-> "p384_sidhp610", alias |-> "p384_sidhp610"],
       [nid |-> NID.sidhp751, group_id |-> SSL_CURVE.SIDHP751,
       name |-> "sidhp751", alias |-> "sidhp751"],
       [nid |-> NID.p521_sidhp751, group_id |-> SSL_CURVE.P521_SIDHP751,
       name |-> "p521_sidhp751", alias |-> "p521_sidhp751"],
       [nid |-> NID.sikep434, group_id |-> SSL_CURVE.SIKEP434,
       name |-> "sikep434", alias |-> "sikep434"],
       [nid |-> NID.p256_sikep434, group_id |-> SSL_CURVE.P256_SIKEP434,
       name |-> "p256_sikep434", alias |-> "p256_sikep434"],
       [nid |-> NID.sikep503, group_id |-> SSL_CURVE.SIKEP503,
       name |-> "sikep503", alias |-> "sikep503"],
       [nid |-> NID.p256_sikep503, group_id |-> SSL_CURVE.P256_SIKEP503,
       name |-> "p256_sikep503", alias |-> "p256_sikep503"],
       [nid |-> NID.sikep610, group_id |-> SSL_CURVE.SIKEP610,
       name |-> "sikep610", alias |-> "sikep610"],
       [nid |-> NID.p384_sikep610, group_id |-> SSL_CURVE.P384_SIKEP610,
       name |-> "p384_sikep610", alias |-> "p384_sikep610"],
       [nid |-> NID.sikep751, group_id |-> SSL_CURVE.SIKEP751,
       name |-> "sikep751", alias |-> "sikep751"],
       [nid |-> NID.p521_sikep751, group_id |-> SSL_CURVE.P521_SIKEP751,
       name |-> "p521_sikep751", alias |-> "p521_sikep751"],
       [nid |-> NID.hqc128_1_cca2, group_id |-> SSL_CURVE.HQC128_1_CCA2,
       name |-> "hqc128_1_cca2", alias |-> "hqc128_1_cca2"],
       [nid |-> NID.p256_hqc128_1_cca2, group_id |-> SSL_CURVE.P256_HQC128_1_CCA2,
       name |-> "p256_hqc128_1_cca2", alias |-> "p256_hqc128_1_cca2"],
       [nid |-> NID.hqc192_1_cca2, group_id |-> SSL_CURVE.HQC192_1_CCA2,
       name |-> "hqc192_1_cca2", alias |-> "hqc192_1_cca2"],
       [nid |-> NID.p384_hqc192_1_cca2, group_id |-> SSL_CURVE.P384_HQC192_1_CCA2,
       name |-> "p384_hqc192_1_cca2", alias |-> "p384_hqc192_1_cca2"],
       [nid |-> NID.hqc192_2_cca2, group_id |-> SSL_CURVE.HQC192_2_CCA2,
       name |-> "hqc192_2_cca2", alias |-> "hqc192_2_cca2"],
       [nid |-> NID.p384_hqc192_2_cca2, group_id |-> SSL_CURVE.P384_HQC192_2_CCA2,
       name |-> "p384_hqc192_2_cca2", alias |-> "p384_hqc192_2_cca2"],
       [nid |-> NID.hqc256_1_cca2, group_id |-> SSL_CURVE.HQC256_1_CCA2,
       name |-> "hqc256_1_cca2", alias |-> "hqc256_1_cca2"],
       [nid |-> NID.p521_hqc256_1_cca2, group_id |-> SSL_CURVE.P521_HQC256_1_CCA2,
       name |-> "p521_hqc256_1_cca2", alias |-> "p521_hqc256_1_cca2"],
       [nid |-> NID.hqc256_2_cca2, group_id |-> SSL_CURVE.HQC256_2_CCA2,
       name |-> "hqc256_2_cca2", alias |-> "hqc256_2_cca2"],
       [nid |-> NID.p521_hqc256_2_cca2, group_id |-> SSL_CURVE.P521_HQC256_2_CCA2,
       name |-> "p521_hqc256_2_cca2", alias |-> "p521_hqc256_2_cca2"],
       [nid |-> NID.hqc256_3_cca2, group_id |-> SSL_CURVE.HQC256_3_CCA2,
       name |-> "hqc256_3_cca2", alias |-> "hqc256_3_cca2"],
       [nid |-> NID.p521_hqc256_3_cca2, group_id |-> SSL_CURVE.P521_HQC256_3_CCA2,
       name |-> "p521_hqc256_3_cca2", alias |-> "p521_hqc256_3_cca2"] >>


(***************************************************************************)
(* Lookups in the registry.  A C string is the string of its characters    *)
(* before the terminating NUL.                                             *)
(***************************************************************************)
strlen(str) == Len(str)

\* The first n characters of a C string, or all of it when it is shorter.
Upto(str, n) == SubSeq(str, 1, IF Len(str) < n THEN Len(str) ELSE n)

\* strncmp: 0 when the two strings agree on their first n characters (the
\* comparison ends at a NUL), non-zero otherwise.
strncmp(str1, str2, n) == IF Upto(str1, n) = Upto(str2, n) THEN 0 ELSE 1

\* The entry a range-for over kNamedGroups returns from: the first of those
\* whose test succeeds.
FirstOf(hits) == CHOOSE i \in hits : \A j \in hits : i <= j

\* ssl_nid_to_group_id; out_group_id is 0 where the code leaves it unset.
ssl_nid_to_group_id(nid) ==
    LET Found(hits) ==
            IF hits = {} THEN [ok |-> FALSE, out_group_id |-> 0]
            ELSE [ok |-> TRUE,
                  out_group_id |-> kNamedGroups[FirstOf(hits)].group_id]
    IN  Found({ i \in 1..Len(kNamedGroups) : kNamedGroups[i].nid = nid })

\* As ssl_name_to_group_id without the tests of len against strlen.
ssl_name_to_group_id_any_length(name, len) ==
    IF \E i \in 1..Len(kNamedGroups) :
          \/ strncmp(kNamedGroups[i].name, name, len) = 0
          \/ strncmp(kNamedGroups[i].alias, name, len) = 0
    THEN [ok |-> TRUE,
          out_group_id |->
              kNamedGroups[FirstOf({ i \in 1..Len(kNamedGroups) :
                  \/ strncmp(kNamedGroups[i].name, name, len) = 0
                  \/ strncmp(kNamedGroups[i].alias, name, len) = 0 })].group_id]
    ELSE [ok |-> FALSE, out_group_id |-> 0]

\* ssl_name_to_group_id: name is the caller's buffer, of which len
\* characters are the name looked up.
ssl_name_to_group_id(name, len) ==
    LET Found(hits) ==
            IF hits = {} THEN [ok |-> FALSE, out_group_id |-> 0]
            ELSE [ok |-> TRUE,
                  out_group_id |-> kNamedGroups[FirstOf(hits)].group_id]
    IN  Found({ i \in 1..Len(kNamedGroups) :
                  \/ /\ len = strlen(kNamedGroups[i].name)
                     /\ strncmp(kNamedGroups[i].name, name, len) = 0
                  \/ /\ len = strlen(kNamedGroups[i].alias)
                     /\ strncmp(kNamedGroups[i].alias, name, len) = 0 })

\* As SSL_get_curve_name returning the alias.
SSL_get_curve_name_alias(group_id) ==
    IF \E i \in 1..Len(kNamedGroups) : kNamedGroups[i].group_id = group_id
    THEN [ok |-> TRUE,
          name |-> kNamedGroups[FirstOf({ i \in 1..Len(kNamedGroups) :
                       kNamedGroups[i].group_id = group_id })].alias]
    ELSE [ok |-> FALSE, name |-> ""]

\* SSL_get_curve_name; ok is FALSE for nullptr.
SSL_get_curve_name(group_id) ==
    LET Found(hits) ==
            IF hits = {} THEN [ok |-> FALSE, name |-> ""]
            ELSE [ok |-> TRUE, name |-> kNamedGroups[FirstOf(hits)].name]
    IN  Found({ i \in 1..Len(kNamedGroups) :
                  kNamedGroups[i].group_id = group_id })

(***************************************************************************)
(* Byte-string helpers (CBB / CBS / Span).                                 *)
(***************************************************************************)
\* CBB_add_u16: two bytes, big-endian; the argument is a uint16_t.
CBB_add_u16(n) == << ((n % 65536) \div 256), (n % 256) >>

\* Span::subspan(pos, len) for pos <= size: the length is clamped to what is
\* left of the span.
subspan(s, pos, len) ==
    LET n == IF Len(s) - pos < len THEN Len(s) - pos ELSE len
    IN  SubSeq(s, pos + 1, pos + n)

Prefix(s, k) == SubSeq(s, 1, k)

\* n zero bytes.
Zeros(n) == [i \in 1..n |-> 0]

\* BN_bn2bin_padded for a value below 2^16: big-endian, left-padded with
\* zeros to n bytes; fails (<<>> with ok = FALSE) when the value does not fit.
BN_bn2bin_padded(n, x) ==
    IF n = 0 THEN [ok |-> x = 0, bytes |-> <<>>]
    ELSE IF n = 1 THEN [ok |-> x < 256, bytes |-> << x % 256 >>]
    ELSE [ok |-> x < 65536,
          bytes |-> Zeros(n - 2) \o << (x \div 256) % 256, x % 256 >>]

\* BN_bin2bn: the value of a big-endian byte string.
RECURSIVE BN_bin2bn(_)
BN_bin2bn(s) ==
    IF Len(s) = 0 THEN 0
    ELSE BN_bin2bn(Prefix(s, Len(s) - 1)) * 256 + s[Len(s)]

\* BN_num_bytes.
BN_num_bytes(x) == IF x = 0 THEN 0 ELSE IF x < 256 THEN 1 ELSE 2

\* Number of bits of x (EC_GROUP_get_degree of the field prime).
RECURSIVE NumBits(_)
NumBits(x) == IF x = 0 THEN 0 ELSE 1 + NumBits(x \div 2)

(***************************************************************************)
(* Classical EC primitives (openssl/ec.h, openssl/bn.h).  A group is the   *)
(* curve y^2 = x^3 + a x + b over F_p with generator G of prime order; a   *)
(* point is <<x, y>> and the point at infinity is <<>>.                    *)
(***************************************************************************)
EC_GROUP_new_by_curve_name(nid) ==
    [p |-> 17, a |-> 2, b |-> 2, G |-> <<5, 1>>, order |-> 19]

ModInv(x, p) == CHOOSE i \in 1..(p - 1) : (x * i) % p = 1

OnCurve(g, x, y) ==
    /\ x \in 0..(g.p - 1)
    /\ y \in 0..(g.p - 1)
    /\ (y * y) % g.p = (x * x * x + g.a * x + g.b) % g.p

ECAdd(g, P, Q) ==
    IF P = <<>> THEN Q
    ELSE IF Q = <<>> THEN P
    ELSE IF P[1] = Q[1] /\ (P[2] + Q[2]) % g.p = 0 THEN <<>>
    ELSE LET l == IF P = Q
                  THEN ((3 * P[1] * P[1] + g.a) * ModInv((2 * P[2]) % g.p, g.p)) % g.p
                  ELSE ((Q[2] - P[2] + g.p) * ModInv((Q[1] - P[1] + g.p) % g.p, g.p)) % g.p
             x3 == (l * l + 2 * g.p - P[1] - Q[1]) % g.p
             y3 == (l * (P[1] - x3 + g.p) + g.p - P[2]) % g.p
         IN  <<x3, y3>>

\* EC_POINT_mul with an arbitrary BIGNUM scalar: the scalar is reduced
\* modulo the group order.
RECURSIVE ECMulRec(_, _, _)
ECMulRec(g, d, P) ==
    IF d = 0 THEN <<>> ELSE ECAdd(g, P, ECMulRec(g, d - 1, P))

EC_POINT_mul(g, d, P) == ECMulRec(g, d % g.order, P)

\* Bytes of one field element.
FieldLen(g) == BN_num_bytes(g.p)

\* EC_POINT_point2cbb with POINT_CONVERSION_UNCOMPRESSED: 0x04 || X || Y;
\* the point at infinity cannot be encoded.
EC_POINT_point2cbb(g, P) ==
    IF P = <<>> THEN [ok |-> FALSE, bytes |-> <<>>]
    ELSE [ok |-> TRUE,
          bytes |-> <<4>> \o BN_bn2bin_padded(FieldLen(g), P[1]).bytes
                          \o BN_bn2bin_padded(FieldLen(g), P[2]).bytes]

\* EC_POINT_oct2point: form 0x04 with exactly 1 + 2*FieldLen bytes, or a
\* compressed form 0x02 / 0x03 with 1 + FieldLen bytes; the coordinates must
\* be reduced and the point on the curve.
EC_POINT_oct2point(g, s) ==
    LET fl == FieldLen(g)
        bad == [ok |-> FALSE, point |-> <<>>]
    IN  IF Len(s) = 0 THEN bad
        ELSE IF s[1] = 4
        THEN IF Len(s) # 1 + 2 * fl THEN bad
             ELSE LET x == BN_bin2bn(SubSeq(s, 2, 1 + fl))
                      y == BN_bin2bn(SubSeq(s, 2 + fl, 1 + 2 * fl))
                  IN  IF OnCurve(g, x, y) THEN [ok |-> TRUE, point |-> <<x, y>>]
                      ELSE bad
        ELSE IF s[1] \in {2, 3}
        THEN IF Len(s) # 1 + fl THEN bad
             ELSE LET x == BN_bin2bn(SubSeq(s, 2, 1 + fl))
                      ys == { y \in 0..(g.p - 1) :
                                OnCurve(g, x, y) /\ y % 2 = s[1] - 2 }
                  IN  IF ys = {} THEN bad
                      ELSE [ok |-> TRUE, point |-> <<x, CHOOSE y \in ys : TRUE>>]
        ELSE bad

(***************************************************************************)
(* X25519 (openssl/curve25519.h), modelled in the subgroup of order 11 of  *)
(* the units modulo 23, generated by 2.  Keys are 32 bytes, little-endian. *)
(***************************************************************************)
X25519_KEY_LEN == 32

RECURSIVE ModPow(_, _, _)
ModPow(b, x, m) == IF x = 0 THEN 1 % m ELSE (b * ModPow(b, x - 1, m)) % m

\* A little-endian byte string reduced modulo m.
RECURSIVE LEMod(_, _)
LEMod(s, m) ==
    IF Len(s) = 0 THEN 0
    ELSE (s[1] + 256 * LEMod(Tail(s), m)) % m

DHGroup == [p |-> 23, g |-> 2, order |-> 11]

\* The clamped scalar of a private key: never a multiple of the order.
DHScalar(priv) == 1 + LEMod(priv, DHGroup.order - 1)

\* A group element as n bytes, little-endian.
DHEncode(v, n) == [i \in 1..n |-> IF i = 1 THEN v ELSE 0]

\* n bytes drawn from the random generator (draw number r).
RAND_bytes(r, n) == [i \in 1..n |-> IF i = 1 THEN r ELSE (r * i) % 256]

\* X25519_keypair: a fresh private key and its public value.
X25519_keypair(r) ==
    LET priv == RAND_bytes(r, X25519_KEY_LEN)
    IN  [private_key |-> priv,
         public_value |-> DHEncode(ModPow(DHGroup.g, DHScalar(priv), DHGroup.p),
                                   X25519_KEY_LEN)]

\* X25519: reads 32 bytes of the peer value; returns 0 when the result is
\* the all-zero string (a small-order input).
X25519(priv, peer32) ==
    LET v == ModPow(LEMod(peer32, DHGroup.p), DHScalar(priv), DHGroup.p)
    IN  [ok |-> v # 0, out |-> DHEncode(v, X25519_KEY_LEN)]

(***************************************************************************)
(* KEMs: HRSS (openssl/hrss.h) and the OQS algorithms (oqs/oqs.h), as the  *)
(* Diffie-Hellman KEM over the same group: pk = g^a, ct = g^b,             *)
(* ss = g^(ab).  The lengths are those of the algorithm's descriptor.      *)
(***************************************************************************)
HRSS_PUBLIC_KEY_BYTES == 3
HRSS_CIPHERTEXT_BYTES == 3
HRSS_KEY_BYTES == 32

HRSS_generate_key(r) ==
    LET priv == RAND_bytes(r, 1)
    IN  [private_key |-> priv,
         public_key |-> DHEncode(ModPow(DHGroup.g, DHScalar(priv), DHGroup.p),
                                 HRSS_PUBLIC_KEY_BYTES)]

\* HRSS_parse_public_key rejects an encoding whose last byte has bits set
\* above the packed coefficients.
HRSS_parse_public_key(s) == s[Len(s)] < 128

\* HRSS_encap: never fails.
HRSS_encap(pk, r) ==
    LET b == DHScalar(RAND_bytes(r, 1))
    IN  [ciphertext |-> DHEncode(ModPow(DHGroup.g, b, DHGroup.p), HRSS_CIPHERTEXT_BYTES),
         key |-> DHEncode(ModPow(LEMod(pk, DHGroup.p), b, DHGroup.p), HRSS_KEY_BYTES)]

\* HRSS_decap: never fails (an invalid ciphertext yields an unrelated key).
HRSS_decap(priv, ct) ==
    DHEncode(ModPow(LEMod(ct, DHGroup.p), DHScalar(priv), DHGroup.p), HRSS_KEY_BYTES)

\* OQS_KEM_new: the descriptor of an algorithm.
OQS_KEM_new(oqs_meth) ==
    [method_name |-> oqs_meth,
     length_public_key |-> 2,
     length_secret_key |-> 2,
     length_ciphertext |-> 3,
     length_shared_secret |-> 2]

OQS_KEM_alg_kyber_512 == "Kyber512"

OQS_KEM_keypair(alg, r) ==
    LET sk == RAND_bytes(r, alg.length_secret_key)
    IN  [secret_key |-> sk,
         public_key |-> DHEncode(ModPow(DHGroup.g, DHScalar(sk), DHGroup.p),
                                 alg.length_public_key)]

\* Reads length_public_key bytes at pk.
OQS_KEM_encaps(alg, pk, r) ==
    LET b == DHScalar(RAND_bytes(r, alg.length_secret_key))
    IN  [ciphertext |-> DHEncode(ModPow(DHGroup.g, b, DHGroup.p), alg.length_ciphertext),
         shared_secret |-> DHEncode(ModPow(LEMod(pk, DHGroup.p), b, DHGroup.p),
                                    alg.length_shared_secret)]

\* Reads length_ciphertext bytes at ct and length_secret_key bytes at sk.
OQS_KEM_decaps(alg, ct, sk) ==
    DHEncode(ModPow(LEMod(ct, DHGroup.p), DHScalar(sk), DHGroup.p),
             alg.length_shared_secret)

(***************************************************************************)
(* State.                                                                  *)
(***************************************************************************)
VARIABLES
    ndebug,     \* the build: TRUE when assert() is compiled out (NDEBUG)
    ks,         \* the KeyShare objects, by handle; NoKeyShare before Create
    tr,         \* per object: what its calls so far consumed and produced
    last,       \* the most recent call and its outcome
    over,       \* the handshake is over: no further call is made
    crashed,    \* the process was aborted (assert / abort() / fault)
    oqs_enabled,\* the build of the PQ library: the algorithms it enables
    lookup,     \* the most recent call of the factory or of a lookup
    obj_xref,   \* the build's table of (signature, digest, key) triples
    algor,      \* the X509_ALGOR a certificate or request carries
    encoded,    \* the most recent x509_digest_sign_algorithm call
    decoded     \* the most recent x509_digest_verify_init call

vars == <<ndebug, ks, tr, last, over, crashed, oqs_enabled, lookup,
          obj_xref, algor, encoded, decoded>>

\* The state of the signature-algorithm dispatcher.
x509vars == <<obj_xref, algor, encoded, decoded>>

Handles == {"a", "b"}

NoKeyShare == [kind |-> "none"]

(***************************************************************************)
(* What a call returns.  alert is the value the call stored to *out_alert  *)
(* (NoAlert when it stored nothing), out the bytes it appended to the      *)
(* caller's CBB, secret the array moved into *out_secret (<<>> when it was *)
(* left alone), self the object afterwards.  subC / subP record the calls  *)
(* a hybrid made on its two sub-backends.                                  *)
(***************************************************************************)
NoSub == [called |-> FALSE, peer |-> <<>>, ok |-> FALSE, alert |-> NoAlert,
          out |-> <<>>, secret |-> <<>>]

Res(ok, alert, out, secret, self) ==
    [ok |-> ok, crash |-> FALSE, alert |-> alert, out |-> out,
     secret |-> secret, self |-> self, oob |-> FALSE,
     subC |-> NoSub, subP |-> NoSub]

\* The process dies inside the call.
Abort(self) ==
    [ok |-> FALSE, crash |-> TRUE, alert |-> NoAlert, out |-> <<>>,
     secret |-> <<>>, self |-> self, oob |-> FALSE,
     subC |-> NoSub, subP |-> NoSub]

\* The earlier of two stores to *out_alert.
Stored_first(a1, a2) == IF a1 # NoAlert THEN a1 ELSE a2

\* The later of two stores to *out_alert.
Stored(a1, a2) == IF a2 # NoAlert THEN a2 ELSE a1

(***************************************************************************)
(* The environment of a call: e.rnd the state of the random generator      *)
(* (which fixes the draws the call makes), e.fail the                      *)
(* step that fails for an internal reason ("alloc": an allocation at the   *)
(* start of the call; "prim": the primitive; "out": appending the result), *)
(* e.at the layer the failure hits ("self"; "finish": the Finish inside    *)
(* the default Accept; "classical" / "pq": a sub-backend of a hybrid),     *)
(* e.mem the content of memory read without having been written, e.oob     *)
(* what an out-of-bounds Span index does ("abort" or "read").              *)
(***************************************************************************)
FailPoints == {"none", "alloc", "prim", "out"}
Layers == {"self", "finish", "classical", "pq"}
MemFill == {0, 170}

Env ==
    [rnd : 1..MaxRand, fail : FailPoints, at : Layers,
     mem : MemFill, oob : {"abort", "read"}]

\* The second draw of a call from the random generator.
Rand2(e) == 1 + (e.rnd % MaxRand)

Fails(e, what) == e.at = "self" /\ e.fail = what

\* The environment a hybrid hands to one of its sub-backends.
SubEnv(e, layer, r) ==
    [rnd |-> r,
     fail |-> IF e.at = layer THEN e.fail ELSE "none",
     at |-> "self", mem |-> e.mem, oob |-> e.oob]

(***************************************************************************)
(* ASN.1 (openssl/bytestring.h), for values and lengths below 128 bytes.   *)
(***************************************************************************)
\* CBB_add_asn1_uint64 of a 16-bit value: INTEGER, minimal big-endian, with
\* a leading zero byte when the top bit is set.
CBB_add_asn1_uint64(v) ==
    IF v < 128 THEN <<2, 1, v>>
    ELSE IF v < 256 THEN <<2, 2, 0, v>>
    ELSE IF v < 32768 THEN <<2, 2, v \div 256, v % 256>>
    ELSE <<2, 3, 0, v \div 256, v % 256>>

CBB_add_asn1_octet_string(s) == <<4, Len(s)>> \o s

\* CBS_get_asn1_uint64: a leading INTEGER, non-negative and minimally
\* encoded, of at most three content bytes; rest is what follows it.
CBS_get_asn1_uint64(in) ==
    IF /\ Len(in) >= 3 /\ in[1] = 2 /\ in[2] \in 1..3 /\ Len(in) >= 2 + in[2]
       /\ in[3] < 128
       /\ in[2] > 1 => (in[3] # 0 \/ in[4] >= 128)
    THEN [ok |-> TRUE,
          value |-> BN_bin2bn(SubSeq(in, 3, 2 + in[2])),
          rest |-> SubSeq(in, 3 + in[2], Len(in))]
    ELSE [ok |-> FALSE, value |-> 0, rest |-> in]

\* CBS_get_asn1(in, &out, CBS_ASN1_OCTETSTRING): the contents of a leading
\* OCTET STRING in short-form length, and what follows it.
CBS_get_asn1_octet_string(in) ==
    IF Len(in) >= 2 /\ in[1] = 4 /\ in[2] < 128 /\ Len(in) >= 2 + in[2]
    THEN [ok |-> TRUE, contents |-> SubSeq(in, 3, 2 + in[2]),
          rest |-> SubSeq(in, 3 + in[2], Len(in))]
    ELSE [ok |-> FALSE, contents |-> <<>>, rest |-> in]

(***************************************************************************)
(* ECKeyShare.  private_key_ is <<>> for a null UniquePtr<BIGNUM> and <<d>>*)
(* for a BIGNUM of value d.                                                *)
(***************************************************************************)
ECKeyShare(nid, group_id) ==
    [kind |-> "EC", nid |-> nid, group_id |-> group_id, private_key_ |-> <<>>]

\* As ECKeyShare::Offer with BN_rand_range_ex(private_key_, 0, order): zero
\* may be drawn.
ECKeyShare_Offer_from_zero(k, e) ==
    LET group == EC_GROUP_new_by_curve_name(k.nid)
        d == (e.rnd - 1) % group.order
        Serialized(enc) ==
            IF k.private_key_ # <<>> /\ ~ndebug THEN Abort(k)
            ELSE IF Fails(e, "alloc") THEN Res(FALSE, NoAlert, <<>>, <<>>, k)
            ELSE IF Fails(e, "prim")
            THEN Res(FALSE, NoAlert, <<>>, <<>>, [k EXCEPT !.private_key_ = <<0>>])
            ELSE IF Fails(e, "out") \/ ~enc.ok
            THEN Res(FALSE, NoAlert, <<>>, <<>>, [k EXCEPT !.private_key_ = <<d>>])
            ELSE Res(TRUE, NoAlert, enc.bytes, <<>>, [k EXCEPT !.private_key_ = <<d>>])
    IN  Serialized(EC_POINT_point2cbb(group, EC_POINT_mul(group, d, group.G)))

ECKeyShare_Offer(k, e) ==
    LET group == EC_GROUP_new_by_curve_name(k.nid)
        \* BN_rand_range_ex(private_key_, 1, order): a value in [1, order)
        d == 1 + ((e.rnd - 1) % (group.order - 1))
        Serialized(enc) ==
            IF k.private_key_ # <<>> /\ ~ndebug THEN Abort(k)  \* assert(!private_key_)
            ELSE IF Fails(e, "alloc") THEN Res(FALSE, NoAlert, <<>>, <<>>, k)
            ELSE IF Fails(e, "prim")
            THEN \* BN_new succeeded, BN_rand_range_ex failed: a zero BIGNUM is held
                 Res(FALSE, NoAlert, <<>>, <<>>, [k EXCEPT !.private_key_ = <<0>>])
            ELSE IF Fails(e, "out") \/ ~enc.ok
            THEN Res(FALSE, NoAlert, <<>>, <<>>, [k EXCEPT !.private_key_ = <<d>>])
            ELSE Res(TRUE, NoAlert, enc.bytes, <<>>, [k EXCEPT !.private_key_ = <<d>>])
    IN  \* public_key = d * G, appended uncompressed
        Serialized(EC_POINT_point2cbb(group, EC_POINT_mul(group, d, group.G)))

\* As ECKeyShare::Finish without the test of the first byte of peer_key:
\* whatever EC_POINT_oct2point parses is taken, compressed forms included.
ECKeyShare_Finish_any_form(k, e, peer_key) ==
    LET group == EC_GROUP_new_by_curve_name(k.nid)
        Multiplied(result) ==
            IF result = <<>> \/ Fails(e, "out")
            THEN Res(FALSE, SSL_AD_INTERNAL_ERROR, <<>>, <<>>, k)
            ELSE Res(TRUE, SSL_AD_INTERNAL_ERROR, <<>>,
                     BN_bn2bin_padded((NumBits(group.p) + 7) \div 8,
                                      result[1]).bytes, k)
        Parsed(peer_point) ==
            IF k.private_key_ = <<>> /\ ~ndebug THEN Abort(k)
            ELSE IF Fails(e, "alloc")
            THEN Res(FALSE, SSL_AD_INTERNAL_ERROR, <<>>, <<>>, k)
            ELSE IF ~peer_point.ok
            THEN Res(FALSE, SSL_AD_DECODE_ERROR, <<>>, <<>>, k)
            ELSE IF k.private_key_ = <<>> \/ Fails(e, "prim")
            THEN Res(FALSE, SSL_AD_INTERNAL_ERROR, <<>>, <<>>, k)
            ELSE Multiplied(EC_POINT_mul(group, k.private_key_[1],
                                         peer_point.point))
    IN  Parsed(EC_POINT_oct2point(group, peer_key))

ECKeyShare_Finish(k, e, peer_key) ==
    LET group == EC_GROUP_new_by_curve_name(k.nid)
        \* the x-coordinate, left-padded to (degree + 7) / 8 bytes
        Encoded(result, secret) ==
            IF result = <<>>
            THEN \* EC_POINT_get_affine_coordinates_GFp: point at infinity
                 Res(FALSE, SSL_AD_INTERNAL_ERROR, <<>>, <<>>, k)
            ELSE IF Fails(e, "out") \/ ~secret.ok
            THEN Res(FALSE, SSL_AD_INTERNAL_ERROR, <<>>, <<>>, k)
            ELSE Res(TRUE, SSL_AD_INTERNAL_ERROR, <<>>, secret.bytes, k)
        Multiplied(result) ==
            Encoded(result,
                    BN_bn2bin_padded((NumBits(group.p) + 7) \div 8, result[1]))
        Parsed(peer_point) ==
            IF k.private_key_ = <<>> /\ ~ndebug THEN Abort(k)  \* assert(private_key_)
            ELSE IF Fails(e, "alloc")
            THEN Res(FALSE, SSL_AD_INTERNAL_ERROR, <<>>, <<>>, k)
            ELSE IF Len(peer_key) = 0 \/ peer_key[1] # 4 \/ ~peer_point.ok
            THEN Res(FALSE, SSL_AD_DECODE_ERROR, <<>>, <<>>, k)
            ELSE IF k.private_key_ = <<>> \/ Fails(e, "prim")
            THEN \* EC_POINT_mul refuses a null scalar, or fails
                 Res(FALSE, SSL_AD_INTERNAL_ERROR, <<>>, <<>>, k)
            ELSE Multiplied(EC_POINT_mul(group, k.private_key_[1],
                                         peer_point.point))
    IN  Parsed(EC_POINT_oct2point(group, peer_key))

\* As ECKeyShare::Serialize writing the scalar in as many bytes as it has
\* (BN_bn2cbb_padded with the length of the scalar, not of the order).
ECKeyShare_Serialize_unpadded(k, e) ==
    IF k.private_key_ = <<>> THEN Abort(k)
    ELSE IF Fails(e, "out") THEN Res(FALSE, NoAlert, <<>>, <<>>, k)
    ELSE Res(TRUE, NoAlert,
             CBB_add_asn1_uint64(k.group_id)
                 \o CBB_add_asn1_octet_string(
                        BN_bn2bin_padded(BN_num_bytes(k.private_key_[1]),
                                         k.private_key_[1]).bytes),
             <<>>, k)

ECKeyShare_Serialize(k, e) ==
    LET group == EC_GROUP_new_by_curve_name(k.nid)
        Padded(padded) ==
            IF Fails(e, "out") \/ ~padded.ok
            THEN Res(FALSE, NoAlert, <<>>, <<>>, k)
            ELSE Res(TRUE, NoAlert,
                     CBB_add_asn1_uint64(k.group_id)
                         \o CBB_add_asn1_octet_string(padded.bytes),
                     <<>>, k)
    IN  IF k.private_key_ = <<>>
        THEN Abort(k)    \* assert(private_key_); without it, a null BIGNUM is read
        ELSE Padded(BN_bn2bin_padded(BN_num_bytes(group.order),
                                     k.private_key_[1]))

ECKeyShare_Deserialize(k, e, in) ==
    LET Got(private_key) ==
            IF k.private_key_ # <<>> /\ ~ndebug THEN Abort(k)  \* assert(!private_key_)
            ELSE IF ~private_key.ok THEN Res(FALSE, NoAlert, <<>>, <<>>, k)
            ELSE IF Fails(e, "alloc")
            THEN \* BN_bin2bn returned null
                 Res(FALSE, NoAlert, <<>>, <<>>, [k EXCEPT !.private_key_ = <<>>])
            ELSE Res(TRUE, NoAlert, <<>>, <<>>,
                     [k EXCEPT !.private_key_ =
                          << BN_bin2bn(private_key.contents) >>])
    IN  Got(CBS_get_asn1_octet_string(in))

(***************************************************************************)
(* X25519KeyShare.  private_key_ is an array member the constructor does   *)
(* not initialise: a new object holds whatever the memory held.            *)
(***************************************************************************)
X25519KeyShare(mem) ==
    [kind |-> "X25519", private_key_ |-> [i \in 1..X25519_KEY_LEN |-> mem]]

X25519KeyShare_Offer(k, e) ==
    LET Generated(kp) ==
            IF Fails(e, "out")
            THEN Res(FALSE, NoAlert, <<>>, <<>>,
                     [k EXCEPT !.private_key_ = kp.private_key])
            ELSE Res(TRUE, NoAlert, kp.public_value, <<>>,
                     [k EXCEPT !.private_key_ = kp.private_key])
    IN  Generated(X25519_keypair(e.rnd))

X25519KeyShare_Finish(k, e, peer_key) ==
    LET Computed(x) ==
            IF Fails(e, "alloc")
            THEN Res(FALSE, SSL_AD_INTERNAL_ERROR, <<>>, <<>>, k)
            ELSE IF Len(peer_key) # X25519_KEY_LEN \/ ~x.ok
            THEN Res(FALSE, SSL_AD_DECODE_ERROR, <<>>, <<>>, k)
            ELSE Res(TRUE, SSL_AD_INTERNAL_ERROR, <<>>, x.out, k)
    IN  Computed(X25519(k.private_key_, peer_key))

X25519KeyShare_Serialize(k, e) ==
    IF Fails(e, "out") THEN Res(FALSE, NoAlert, <<>>, <<>>, k)
    ELSE Res(TRUE, NoAlert,
             CBB_add_asn1_uint64(SSL_CURVE_X25519)
                 \o CBB_add_asn1_octet_string(k.private_key_),
             <<>>, k)

\* As X25519KeyShare::Deserialize without CBS_copy_bytes: the key is checked
\* and not taken.
X25519KeyShare_Deserialize_not_copied(k, e, in) ==
    IF /\ CBS_get_asn1_octet_string(in).ok
       /\ Len(CBS_get_asn1_octet_string(in).contents) = X25519_KEY_LEN
    THEN Res(TRUE, NoAlert, <<>>, <<>>, k)
    ELSE Res(FALSE, NoAlert, <<>>, <<>>, k)

X25519KeyShare_Deserialize(k, e, in) ==
    LET Got(key) ==
            IF ~key.ok \/ Len(key.contents) # X25519_KEY_LEN
            THEN Res(FALSE, NoAlert, <<>>, <<>>, k)
            ELSE Res(TRUE, NoAlert, <<>>, <<>>,
                     [k EXCEPT !.private_key_ = key.contents])
    IN  Got(CBS_get_asn1_octet_string(in))

(***************************************************************************)
(* CECPQ2KeyShare.  Neither private key is initialised by the constructor. *)
(***************************************************************************)
CECPQ2KeyShare(mem) ==
    [kind |-> "CECPQ2",
     x25519_private_key_ |-> [i \in 1..X25519_KEY_LEN |-> mem],
     hrss_private_key_ |-> <<mem>>]

CECPQ2KeyShare_Offer(k, e) ==
    LET Generated(kp, hrss) ==
            IF Fails(e, "out")
            THEN Res(FALSE, NoAlert, <<>>, <<>>,
                     [k EXCEPT !.x25519_private_key_ = kp.private_key,
                               !.hrss_private_key_ = hrss.private_key])
            ELSE Res(TRUE, NoAlert, kp.public_value \o hrss.public_key, <<>>,
                     [k EXCEPT !.x25519_private_key_ = kp.private_key,
                               !.hrss_private_key_ = hrss.private_key])
    IN  Generated(X25519_keypair(e.rnd), HRSS_generate_key(Rand2(e)))

\* As CECPQ2KeyShare::Accept computing with the X25519 key the object
\* already holds instead of generating one.
CECPQ2KeyShare_Accept_stored_key(k, e, peer_key) ==
    LET peer_public_key == SubSeq(peer_key, X25519_KEY_LEN + 1, Len(peer_key))
        Computed(x, enc) ==
            IF Fails(e, "alloc") THEN Res(FALSE, NoAlert, <<>>, <<>>, k)
            ELSE IF \/ Len(peer_key) # X25519_KEY_LEN + HRSS_PUBLIC_KEY_BYTES
                    \/ ~HRSS_parse_public_key(peer_public_key)
                    \/ ~x.ok
            THEN Res(FALSE, SSL_AD_DECODE_ERROR, <<>>, <<>>, k)
            ELSE IF Fails(e, "out") THEN Res(FALSE, NoAlert, <<>>, <<>>, k)
            ELSE Res(TRUE, NoAlert,
                     DHEncode(ModPow(DHGroup.g, DHScalar(k.x25519_private_key_),
                                     DHGroup.p), X25519_KEY_LEN)
                         \o enc.ciphertext,
                     x.out \o enc.key, k)
    IN  Computed(X25519(k.x25519_private_key_, Prefix(peer_key, X25519_KEY_LEN)),
                 HRSS_encap(peer_public_key, Rand2(e)))

CECPQ2KeyShare_Accept(k, e, peer_key) ==
    LET peer_public_key == SubSeq(peer_key, X25519_KEY_LEN + 1, Len(peer_key))
        Computed(self, kp, x, enc) ==
            IF Fails(e, "alloc") THEN Res(FALSE, NoAlert, <<>>, <<>>, k)
            ELSE IF \/ Len(peer_key) # X25519_KEY_LEN + HRSS_PUBLIC_KEY_BYTES
                    \/ ~HRSS_parse_public_key(peer_public_key)
                    \/ ~x.ok
            THEN Res(FALSE, SSL_AD_DECODE_ERROR, <<>>, <<>>, self)
            ELSE IF Fails(e, "out") THEN Res(FALSE, NoAlert, <<>>, <<>>, self)
            ELSE Res(TRUE, NoAlert, kp.public_value \o enc.ciphertext,
                     x.out \o enc.key, self)
        Generated(kp) ==
            Computed([k EXCEPT !.x25519_private_key_ = kp.private_key], kp,
                     X25519(kp.private_key, Prefix(peer_key, X25519_KEY_LEN)),
                     HRSS_encap(peer_public_key, Rand2(e)))
    IN  Generated(X25519_keypair(e.rnd))

\* As CECPQ2KeyShare::Finish without the test of peer_key.size(): X25519
\* and HRSS_decap read 32 + HRSS_CIPHERTEXT_BYTES bytes whatever there are.
CECPQ2KeyShare_Finish_unchecked(k, e, peer_key) ==
    IF Fails(e, "alloc") THEN Res(FALSE, SSL_AD_INTERNAL_ERROR, <<>>, <<>>, k)
    ELSE IF Len(peer_key) = X25519_KEY_LEN + HRSS_CIPHERTEXT_BYTES
    THEN IF X25519(k.x25519_private_key_, Prefix(peer_key, X25519_KEY_LEN)).ok
         THEN Res(TRUE, SSL_AD_INTERNAL_ERROR, <<>>,
                  X25519(k.x25519_private_key_,
                         Prefix(peer_key, X25519_KEY_LEN)).out
                      \o HRSS_decap(k.hrss_private_key_,
                                    SubSeq(peer_key, X25519_KEY_LEN + 1,
                                           Len(peer_key))), k)
         ELSE Res(FALSE, SSL_AD_DECODE_ERROR, <<>>, <<>>, k)
    ELSE [Res(TRUE, SSL_AD_INTERNAL_ERROR, <<>>, Zeros(X25519_KEY_LEN), k)
             EXCEPT !.oob = Len(peer_key) < X25519_KEY_LEN + HRSS_CIPHERTEXT_BYTES]

CECPQ2KeyShare_Finish(k, e, peer_key) ==
    LET Computed(x, key) ==
            IF Fails(e, "alloc")
            THEN Res(FALSE, SSL_AD_INTERNAL_ERROR, <<>>, <<>>, k)
            ELSE IF Len(peer_key) # X25519_KEY_LEN + HRSS_CIPHERTEXT_BYTES \/ ~x.ok
            THEN Res(FALSE, SSL_AD_DECODE_ERROR, <<>>, <<>>, k)
            ELSE Res(TRUE, SSL_AD_INTERNAL_ERROR, <<>>, x.out \o key, k)
    IN  Computed(X25519(k.x25519_private_key_, Prefix(peer_key, X25519_KEY_LEN)),
                 HRSS_decap(k.hrss_private_key_,
                            SubSeq(peer_key, X25519_KEY_LEN + 1, Len(peer_key))))

(***************************************************************************)
(* OQSKeyShare.  private_key_ is an Array<uint8_t>: empty (data() null)    *)
(* until Offer initialises it.                                             *)
(***************************************************************************)
OQSKeyShare(group_id, oqs_meth) ==
    [kind |-> "OQS", group_id |-> group_id, kex_alg_ |-> OQS_KEM_new(oqs_meth),
     private_key_ |-> <<>>]

OQSKeyShare_Offer(k, e) ==
    LET Generated(kp) ==
            IF Fails(e, "alloc") THEN Res(FALSE, NoAlert, <<>>, <<>>, k)
            ELSE IF Fails(e, "prim")
            THEN \* the array was allocated and never filled
                 Res(FALSE, NoAlert, <<>>, <<>>,
                     [k EXCEPT !.private_key_ =
                          [i \in 1..k.kex_alg_.length_secret_key |-> e.mem]])
            ELSE IF Fails(e, "out")
            THEN Res(FALSE, NoAlert, <<>>, <<>>,
                     [k EXCEPT !.private_key_ = kp.secret_key])
            ELSE Res(TRUE, NoAlert, kp.public_key, <<>>,
                     [k EXCEPT !.private_key_ = kp.secret_key])
    IN  Generated(OQS_KEM_keypair(k.kex_alg_, e.rnd))

OQSKeyShare_Accept(k, e, peer_key) ==
    LET Encapsulated(enc) ==
            IF Len(peer_key) # k.kex_alg_.length_public_key
            THEN Res(FALSE, SSL_AD_DECODE_ERROR, <<>>, <<>>, k)
            ELSE IF Fails(e, "alloc") THEN Res(FALSE, NoAlert, <<>>, <<>>, k)
            ELSE IF Fails(e, "prim")
            THEN Res(FALSE, SSL_AD_DECODE_ERROR, <<>>, <<>>, k)
            ELSE IF Fails(e, "out") THEN Res(FALSE, NoAlert, <<>>, <<>>, k)
            ELSE Res(TRUE, NoAlert, enc.ciphertext, enc.shared_secret, k)
    IN  Encapsulated(OQS_KEM_encaps(k.kex_alg_, peer_key, e.rnd))

OQSKeyShare_Finish(k, e, peer_key) ==
    IF Len(peer_key) # k.kex_alg_.length_ciphertext
    THEN Res(FALSE, SSL_AD_DECODE_ERROR, <<>>, <<>>, k)
    ELSE IF Fails(e, "alloc") THEN Res(FALSE, NoAlert, <<>>, <<>>, k)
    ELSE IF k.private_key_ = <<>>
    THEN Abort(k)   \* OQS_KEM_decaps reads the secret key at a null pointer
    ELSE IF Fails(e, "prim")
    THEN Res(FALSE, SSL_AD_DECODE_ERROR, <<>>, <<>>, k)
    ELSE Res(TRUE, NoAlert, <<>>,
             OQS_KEM_decaps(k.kex_alg_, peer_key, k.private_key_), k)

(***************************************************************************)
(* The SSLKeyShare contract: the factory, the virtual dispatch and the     *)
(* default Accept.                                                         *)
(***************************************************************************)
\* OQS_KEM_alg_is_enabled: whether the library was built with the algorithm.
OQS_KEM_alg_is_enabled(oqs_meth) == oqs_meth \in oqs_enabled

\* The cases of SSLKeyShare::Create(uint16_t) between the markers
\* OQS_TEMPLATE_FRAGMENT_HANDLE_GROUP_IDS that build an OQSKeyShare: the
\* case label, the algorithm tested with OQS_KEM_alg_is_enabled, and the
\* arguments of the constructor.
OQSCases ==
    << [label |-> SSL_CURVE.OQS_KEM_DEFAULT, enabled |-> "OQS_KEM_alg_default",
       new_group_id |-> SSL_CURVE.OQS_KEM_DEFAULT, oqs_meth |-> "OQS_KEM_alg_default"],
       [label |-> SSL_CURVE.BIKE1L1CPA, enabled |-> "OQS_KEM_alg_bike1_l1_cpa",
       new_group_id |-> SSL_CURVE.BIKE1L1CPA, oqs_meth |-> "OQS_KEM_alg_bike1_l1_cpa"],
       [label |-> SSL_CURVE.BIKE1L3CPA, enabled |-> "OQS_KEM_alg_bike1_l3_cpa",
       new_group_id |-> SSL_CURVE.BIKE1L3CPA, oqs_meth |-> "OQS_KEM_alg_bike1_l3_cpa"],
       [label |-> SSL_CURVE.BIKE1L1FO, enabled |-> "OQS_KEM_alg_bike1_l1_fo",
       new_group_id |-> SSL_CURVE.BIKE1L1FO, oqs_meth |-> "OQS_KEM_alg_bike1_l1_fo"],
       [label |-> SSL_CURVE.BIKE1L3FO, enabled |-> "OQS_KEM_alg_bike1_l3_fo",
       new_group_id |-> SSL_CURVE.BIKE1L3FO, oqs_meth |-> "OQS_KEM_alg_bike1_l3_fo"],
       [label |-> SSL_CURVE.FRODO640AES, enabled |-> "OQS_KEM_alg_frodokem_640_aes",
       new_group_id |-> SSL_CURVE.FRODO640AES, oqs_meth |-> "OQS_KEM_alg_frodokem_640_aes"],
       [label |-> SSL_CURVE.FRODO640SHAKE, enabled |-> "OQS_KEM_alg_frodokem_640_shake",
       new_group_id |-> SSL_CURVE.FRODO640SHAKE, oqs_meth |-> "OQS_KEM_alg_frodokem_640_shake"],
       [label |-> SSL_CURVE.FRODO976AES, enabled |-> "OQS_KEM_alg_frodokem_976_aes",
       new_group_id |-> SSL_CURVE.FRODO976AES, oqs_meth |-> "OQS_KEM_alg_frodokem_976_aes"],
       [label |-> SSL_CURVE.FRODO976SHAKE, enabled |-> "OQS_KEM_alg_frodokem_976_shake",
       new_group_id |-> SSL_CURVE.FRODO976SHAKE, oqs_meth |-> "OQS_KEM_alg_frodokem_976_shake"],
       [label |-> SSL_CURVE.FRODO1344AES, enabled |-> "OQS_KEM_alg_frodokem_1344_aes",
       new_group_id |-> SSL_CURVE.FRODO1344AES, oqs_meth |-> "OQS_KEM_alg_frodokem_1344_aes"],
       [label |-> SSL_CURVE.FRODO1344SHAKE, enabled |-> "OQS_KEM_alg_frodokem_1344_shake",
       new_group_id |-> SSL_CURVE.FRODO1344SHAKE, oqs_meth |-> "OQS_KEM_alg_frodokem_1344_shake"],
       [label |-> SSL_CURVE.KYBER512, enabled |-> OQS_KEM_alg_kyber_512,
       new_group_id |-> SSL_CURVE.KYBER512, oqs_meth |-> OQS_KEM_alg_kyber_512],
       [label |-> SSL_CURVE.KYBER768, enabled |-> "OQS_KEM_alg_kyber_768",
       new_group_id |-> SSL_CURVE.KYBER768, oqs_meth |-> "OQS_KEM_alg_kyber_768"],
       [label |-> SSL_CURVE.KYBER1024, enabled |-> "OQS_KEM_alg_kyber_1024",
       new_group_id |-> SSL_CURVE.KYBER1024, oqs_meth |-> "OQS_KEM_alg_kyber_1024"],
       [label |-> SSL_CURVE.KYBER90S512, enabled |-> "OQS_KEM_alg_kyber_512_90s",
       new_group_id |-> SSL_CURVE.KYBER90S512, oqs_meth |-> "OQS_KEM_alg_kyber_512_90s"],
       [label |-> SSL_CURVE.KYBER90S768, enabled |-> "OQS_KEM_alg_kyber_768_90s",
       new_group_id |-> SSL_CURVE.KYBER90S768, oqs_meth |-> "OQS_KEM_alg_kyber_768_90s"],
       [label |-> SSL_CURVE.KYBER90S1024, enabled |-> "OQS_KEM_alg_kyber_1024_90s",
       new_group_id |-> SSL_CURVE.KYBER90S1024, oqs_meth |-> "OQS_KEM_alg_kyber_1024_90s"],
       [label |-> SSL_CURVE.NTRU_HPS2048509, enabled |-> "OQS_KEM_alg_ntru_hps2048509",
       new_group_id |-> SSL_CURVE.NTRU_HPS2048509, oqs_meth |-> "OQS_KEM_alg_ntru_hps2048509"],
       [label |-> SSL_CURVE.NTRU_HPS2048677, enabled |-> "OQS_KEM_alg_ntru_hps2048677",
       new_group_id |-> SSL_CURVE.NTRU_HPS2048677, oqs_meth |-> "OQS_KEM_alg_ntru_hps2048677"],
       [label |-> SSL_CURVE.NTRU_HPS4096821, enabled |-> "OQS_KEM_alg_ntru_hps4096821",
       new_group_id |-> SSL_CURVE.NTRU_HPS4096821, oqs_meth |-> "OQS_KEM_alg_ntru_hps4096821"],
       [label |-> SSL_CURVE.NTRU_HRSS701, enabled |-> "OQS_KEM_alg_ntru_hrss701",
       new_group_id |-> SSL_CURVE.NTRU_HRSS701, oqs_meth |-> "OQS_KEM_alg_ntru_hrss701"],
       [label |-> SSL_CURVE.LIGHTSABER, enabled |-> "OQS_KEM_alg_saber_lightsaber",
       new_group_id |-> SSL_CURVE.LIGHTSABER, oqs_meth |-> "OQS_KEM_alg_saber_lightsaber"],
       [label |-> SSL_CURVE.SABER, enabled |-> "OQS_KEM_alg_saber_saber",
       new_group_id |-> SSL_CURVE.SABER, oqs_meth |-> "OQS_KEM_alg_saber_saber"],
       [label |-> SSL_CURVE.FIRESABER, enabled |-> "OQS_KEM_alg_saber_firesaber",
       new_group_id |-> SSL_CURVE.FIRESABER, oqs_meth |-> "OQS_KEM_alg_saber_firesaber"],
       [label |-> SSL_CURVE.SIDHP434, enabled |-> "OQS_KEM_alg_sidh_p434",
       new_group_id |-> SSL_CURVE.SIDHP434, oqs_meth |-> "OQS_KEM_alg_sidh_p434"],
       [label |-> SSL_CURVE.SIDHP503, enabled |-> "OQS_KEM_alg_sidh_p503",
       new_group_id |-> SSL_CURVE.SIDHP503, oqs_meth |-> "OQS_KEM_alg_sidh_p503"],
       [label |-> SSL_CURVE.SIDHP610, enabled |-> "OQS_KEM_alg_sidh_p610",
       new_group_id |-> SSL_CURVE.SIDHP610, oqs_meth |-> "OQS_KEM_alg_sidh_p610"],
       [label |-> SSL_CURVE.SIDHP751, enabled |-> "OQS_KEM_alg_sidh_p751",
       new_group_id |-> SSL_CURVE.SIDHP751, oqs_meth |-> "OQS_KEM_alg_sidh_p751"],
       [label |-> SSL_CURVE.SIKEP434, enabled |-> "OQS_KEM_alg_sike_p434",
       new_group_id |-> SSL_CURVE.SIKEP434, oqs_meth |-> "OQS_KEM_alg_sike_p434"],
       [label |-> SSL_CURVE.SIKEP503, enabled |-> "OQS_KEM_alg_sike_p503",
       new_group_id |-> SSL_CURVE.SIKEP503, oqs_meth |-> "OQS_KEM_alg_sike_p503"],
       [label |-> SSL_CURVE.SIKEP610, enabled |-> "OQS_KEM_alg_sike_p610",
       new_group_id |-> SSL_CURVE.SIKEP610, oqs_meth |-> "OQS_KEM_alg_sike_p610"],
       [label |-> SSL_CURVE.SIKEP751, enabled |-> "OQS_KEM_alg_sike_p751",
       new_group_id |-> SSL_CURVE.SIKEP751, oqs_meth |-> "OQS_KEM_alg_sike_p751"],
       [label |-> SSL_CURVE.HQC128_1_CCA2, enabled |-> "OQS_KEM_alg_hqc_128_1_cca2",
       new_group_id |-> SSL_CURVE.HQC128_1_CCA2, oqs_meth |-> "OQS_KEM_alg_hqc_128_1_cca2"],
       [label |-> SSL_CURVE.HQC192_1_CCA2, enabled |-> "OQS_KEM_alg_hqc_192_1_cca2",
       new_group_id |-> SSL_CURVE.HQC192_1_CCA2, oqs_meth |-> "OQS_KEM_alg_hqc_192_1_cca2"],
       [label |-> SSL_CURVE.HQC192_2_CCA2, enabled |-> "OQS_KEM_alg_hqc_192_2_cca2",
       new_group_id |-> SSL_CURVE.HQC192_2_CCA2, oqs_meth |-> "OQS_KEM_alg_hqc_192_2_cca2"],
       [label |-> SSL_CURVE.HQC256_1_CCA2, enabled |-> "OQS_KEM_alg_hqc_256_1_cca2",
       new_group_id |-> SSL_CURVE.HQC256_1_CCA2, oqs_meth |-> "OQS_KEM_alg_hqc_256_1_cca2"],
       [label |-> SSL_CURVE.HQC256_2_CCA2, enabled |-> "OQS_KEM_alg_hqc_256_2_cca2",
       new_group_id |-> SSL_CURVE.HQC256_2_CCA2, oqs_meth |-> "OQS_KEM_alg_hqc_256_2_cca2"],
       [label |-> SSL_CURVE.HQC256_3_CCA2, enabled |-> "OQS_KEM_alg_hqc_256_3_cca2",
       new_group_id |-> SSL_CURVE.HQC256_3_CCA2, oqs_meth |-> "OQS_KEM_alg_hqc_256_3_cca2"] >>

\* Those that build a ClassicalWithOQSKeyShare.
HybridCases ==
    << [label |-> SSL_CURVE.P256_OQS_KEM_DEFAULT, enabled |-> "OQS_KEM_alg_default",
       new_group_id |-> SSL_CURVE.P256_OQS_KEM_DEFAULT, classical_group_id |-> SSL_CURVE.SECP256R1,
       oqs_meth |-> "OQS_KEM_alg_default"],
       [label |-> SSL_CURVE.P256_BIKE1L1CPA, enabled |-> "OQS_KEM_alg_bike1_l1_cpa",
       new_group_id |-> SSL_CURVE.P256_BIKE1L1CPA, classical_group_id |-> SSL_CURVE.SECP256R1,
       oqs_meth |-> "OQS_KEM_alg_bike1_l1_cpa"],
       [label |-> SSL_CURVE.P384_BIKE1L3CPA, enabled |-> "OQS_KEM_alg_bike1_l3_cpa",
       new_group_id |-> SSL_CURVE.P384_BIKE1L3CPA, classical_group_id |-> SSL_CURVE.SECP384R1,
       oqs_meth |-> "OQS_KEM_alg_bike1_l3_cpa"],
       [label |-> SSL_CURVE.P256_BIKE1L1FO, enabled |-> "OQS_KEM_alg_bike1_l1_fo",
       new_group_id |-> SSL_CURVE.P256_BIKE1L1FO, classical_group_id |-> SSL_CURVE.SECP256R1,
       oqs_meth |-> "OQS_KEM_alg_bike1_l1_fo"],
       [label |-> SSL_CURVE.P384_BIKE1L3FO, enabled |-> "OQS_KEM_alg_bike1_l3_fo",
       new_group_id |-> SSL_CURVE.P384_BIKE1L3FO, classical_group_id |-> SSL_CURVE.SECP384R1,
       oqs_meth |-> "OQS_KEM_alg_bike1_l3_fo"],
       [label |-> SSL_CURVE.P256_FRODO640AES, enabled |-> "OQS_KEM_alg_frodokem_640_aes",
       new_group_id |-> SSL_CURVE.P256_FRODO640AES, classical_group_id |-> SSL_CURVE.SECP256R1,
       oqs_meth |-> "OQS_KEM_alg_frodokem_640_aes"],
       [label |-> SSL_CURVE.P256_FRODO640SHAKE, enabled |-> "OQS_KEM_alg_frodokem_640_shake",
       new_group_id |-> SSL_CURVE.P256_FRODO640SHAKE, classical_group_id |-> SSL_CURVE.SECP256R1,
       oqs_meth |-> "OQS_KEM_alg_frodokem_640_shake"],
       [label |-> SSL_CURVE.P384_FRODO976AES, enabled |-> "OQS_KEM_alg_frodokem_976_aes",
       new_group_id |-> SSL_CURVE.P384_FRODO976AES, classical_group_id |-> SSL_CURVE.SECP384R1,
       oqs_meth |-> "OQS_KEM_alg_frodokem_976_aes"],
       [label |-> SSL_CURVE.P384_FRODO976SHAKE, enabled |-> "OQS_KEM_alg_frodokem_976_shake",
       new_group_id |-> SSL_CURVE.P384_FRODO976SHAKE, classical_group_id |-> SSL_CURVE.SECP384R1,
       oqs_meth |-> "OQS_KEM_alg_frodokem_976_shake"],
       [label |-> SSL_CURVE.P521_FRODO1344AES, enabled |-> "OQS_KEM_alg_frodokem_1344_aes",
       new_group_id |-> SSL_CURVE.P521_FRODO1344AES, classical_group_id |-> SSL_CURVE.SECP521R1,
       oqs_meth |-> "OQS_KEM_alg_frodokem_1344_aes"],
       [label |-> SSL_CURVE.P521_FRODO1344SHAKE, enabled |-> "OQS_KEM_alg_frodokem_1344_shake",
       new_group_id |-> SSL_CURVE.P521_FRODO1344SHAKE, classical_group_id |-> SSL_CURVE.SECP521R1,
       oqs_meth |-> "OQS_KEM_alg_frodokem_1344_shake"],
       [label |-> SSL_CURVE.P256_KYBER512, enabled |-> OQS_KEM_alg_kyber_512,
       new_group_id |-> SSL_CURVE.P256_KYBER512, classical_group_id |-> SSL_CURVE.SECP256R1,
       oqs_meth |-> OQS_KEM_alg_kyber_512],
       [label |-> SSL_CURVE.P384_KYBER768, enabled |-> "OQS_KEM_alg_kyber_768",
       new_group_id |-> SSL_CURVE.P384_KYBER768, classical_group_id |-> SSL_CURVE.SECP384R1,
       oqs_meth |-> "OQS_KEM_alg_kyber_768"],
       [label |-> SSL_CURVE.P521_KYBER1024, enabled |-> "OQS_KEM_alg_kyber_1024",
       new_group_id |-> SSL_CURVE.P521_KYBER1024, classical_group_id |-> SSL_CURVE.SECP521R1,
       oqs_meth |-> "OQS_KEM_alg_kyber_1024"],
       [label |-> SSL_CURVE.P256_KYBER90S512, enabled |-> "OQS_KEM_alg_kyber_512_90s",
       new_group_id |-> SSL_CURVE.P256_KYBER90S512, classical_group_id |-> SSL_CURVE.SECP256R1,
       oqs_meth |-> "OQS_KEM_alg_kyber_512_90s"],
       [label |-> SSL_CURVE.P384_KYBER90S768, enabled |-> "OQS_KEM_alg_kyber_768_90s",
       new_group_id |-> SSL_CURVE.P384_KYBER90S768, classical_group_id |-> SSL_CURVE.SECP384R1,
       oqs_meth |-> "OQS_KEM_alg_kyber_768_90s"],
       [label |-> SSL_CURVE.P521_KYBER90S1024, enabled |-> "OQS_KEM_alg_kyber_1024_90s",
       new_group_id |-> SSL_CURVE.P521_KYBER90S1024, classical_group_id |-> SSL_CURVE.SECP521R1,
       oqs_meth |-> "OQS_KEM_alg_kyber_1024_90s"],
       [label |-> SSL_CURVE.P256_NTRU_HPS2048509, enabled |-> "OQS_KEM_alg_ntru_hps2048509",
       new_group_id |-> SSL_CURVE.P256_NTRU_HPS2048509, classical_group_id |-> SSL_CURVE.SECP256R1,
       oqs_meth |-> "OQS_KEM_alg_ntru_hps2048509"],
       [label |-> SSL_CURVE.P384_NTRU_HPS2048677, enabled |-> "OQS_KEM_alg_ntru_hps2048677",
       new_group_id |-> SSL_CURVE.P384_NTRU_HPS2048677, classical_group_id |-> SSL_CURVE.SECP384R1,
       oqs_meth |-> "OQS_KEM_alg_ntru_hps2048677"],
       [label |-> SSL_CURVE.P521_NTRU_HPS4096821, enabled |-> "OQS_KEM_alg_ntru_hps4096821",
       new_group_id |-> SSL_CURVE.P521_NTRU_HPS4096821, classical_group_id |-> SSL_CURVE.SECP521R1,
       oqs_meth |-> "OQS_KEM_alg_ntru_hps4096821"],
       [label |-> SSL_CURVE.P384_NTRU_HRSS701, enabled |-> "OQS_KEM_alg_ntru_hrss701",
       new_group_id |-> SSL_CURVE.P384_NTRU_HRSS701, classical_group_id |-> SSL_CURVE.SECP384R1,
       oqs_meth |-> "OQS_KEM_alg_ntru_hrss701"],
       [label |-> SSL_CURVE.P256_LIGHTSABER, enabled |-> "OQS_KEM_alg_saber_lightsaber",
       new_group_id |-> SSL_CURVE.P256_LIGHTSABER, classical_group_id |-> SSL_CURVE.SECP256R1,
       oqs_meth |-> "OQS_KEM_alg_saber_lightsaber"],
       [label |-> SSL_CURVE.P384_SABER, enabled |-> "OQS_KEM_alg_saber_saber",
       new_group_id |-> SSL_CURVE.P384_SABER, classical_group_id |-> SSL_CURVE.SECP384R1,
       oqs_meth |-> "OQS_KEM_alg_saber_saber"],
       [label |-> SSL_CURVE.P521_FIRESABER, enabled |-> "OQS_KEM_alg_saber_firesaber",
       new_group_id |-> SSL_CURVE.P521_FIRESABER, classical_group_id |-> SSL_CURVE.SECP521R1,
       oqs_meth |-> "OQS_KEM_alg_saber_firesaber"],
       [label |-> SSL_CURVE.P256_SIDHP434, enabled |-> "OQS_KEM_alg_sidh_p434",
       new_group_id |-> SSL_CURVE.P256_SIDHP434, classical_group_id |-> SSL_CURVE.SECP256R1,
       oqs_meth |-> "OQS_KEM_alg_sidh_p434"],
       [label |-> SSL_CURVE.P256_SIDHP503, enabled |-> "OQS_KEM_alg_sidh_p503",
       new_group_id |-> SSL_CURVE.P256_SIDHP503, classical_group_id |-> SSL_CURVE.SECP256R1,
       oqs_meth |-> "OQS_KEM_alg_sidh_p503"],
       [label |-> SSL_CURVE.P384_SIDHP610, enabled |-> "OQS_KEM_alg_sidh_p610",
       new_group_id |-> SSL_CURVE.P384_SIDHP610, classical_group_id |-> SSL_CURVE.SECP384R1,
       oqs_meth |-> "OQS_KEM_alg_sidh_p610"],
       [label |-> SSL_CURVE.P521_SIDHP751, enabled |-> "OQS_KEM_alg_sidh_p751",
       new_group_id |-> SSL_CURVE.P521_SIDHP751, classical_group_id |-> SSL_CURVE.SECP521R1,
       oqs_meth |-> "OQS_KEM_alg_sidh_p751"],
       [label |-> SSL_CURVE.P256_SIKEP434, enabled |-> "OQS_KEM_alg_sike_p434",
       new_group_id |-> SSL_CURVE.P256_SIKEP434, classical_group_id |-> SSL_CURVE.SECP256R1,
       oqs_meth |-> "OQS_KEM_alg_sike_p434"],
       [label |-> SSL_CURVE.P256_SIKEP503, enabled |-> "OQS_KEM_alg_sike_p503",
       new_group_id |-> SSL_CURVE.P256_SIKEP503, classical_group_id |-> SSL_CURVE.SECP256R1,
       oqs_meth |-> "OQS_KEM_alg_sike_p503"],
       [label |-> SSL_CURVE.P384_SIKEP610, enabled |-> "OQS_KEM_alg_sike_p610",
       new_group_id |-> SSL_CURVE.P384_SIKEP610, classical_group_id |-> SSL_CURVE.SECP384R1,
       oqs_meth |-> "OQS_KEM_alg_sike_p610"],
       [label |-> SSL_CURVE.P521_SIKEP751, enabled |-> "OQS_KEM_alg_sike_p751",
       new_group_id |-> SSL_CURVE.P521_SIKEP751, classical_group_id |-> SSL_CURVE.SECP521R1,
       oqs_meth |-> "OQS_KEM_alg_sike_p751"],
       [label |-> SSL_CURVE.P256_HQC128_1_CCA2, enabled |-> "OQS_KEM_alg_hqc_128_1_cca2",
       new_group_id |-> SSL_CURVE.P256_HQC128_1_CCA2, classical_group_id |-> SSL_CURVE.SECP256R1,
       oqs_meth |-> "OQS_KEM_alg_hqc_128_1_cca2"],
       [label |-> SSL_CURVE.P384_HQC192_1_CCA2, enabled |-> "OQS_KEM_alg_hqc_192_1_cca2",
       new_group_id |-> SSL_CURVE.P384_HQC192_1_CCA2, classical_group_id |-> SSL_CURVE.SECP384R1,
       oqs_meth |-> "OQS_KEM_alg_hqc_192_1_cca2"],
       [label |-> SSL_CURVE.P384_HQC192_2_CCA2, enabled |-> "OQS_KEM_alg_hqc_192_2_cca2",
       new_group_id |-> SSL_CURVE.P384_HQC192_2_CCA2, classical_group_id |-> SSL_CURVE.SECP384R1,
       oqs_meth |-> "OQS_KEM_alg_hqc_192_2_cca2"],
       [label |-> SSL_CURVE.P521_HQC256_1_CCA2, enabled |-> "OQS_KEM_alg_hqc_256_1_cca2",
       new_group_id |-> SSL_CURVE.P521_HQC256_1_CCA2, classical_group_id |-> SSL_CURVE.SECP521R1,
       oqs_meth |-> "OQS_KEM_alg_hqc_256_1_cca2"],
       [label |-> SSL_CURVE.P521_HQC256_2_CCA2, enabled |-> "OQS_KEM_alg_hqc_256_2_cca2",
       new_group_id |-> SSL_CURVE.P521_HQC256_2_CCA2, classical_group_id |-> SSL_CURVE.SECP521R1,
       oqs_meth |-> "OQS_KEM_alg_hqc_256_2_cca2"],
       [label |-> SSL_CURVE.P521_HQC256_3_CCA2, enabled |-> "OQS_KEM_alg_hqc_256_3_cca2",
       new_group_id |-> SSL_CURVE.P521_HQC256_3_CCA2, classical_group_id |-> SSL_CURVE.SECP521R1,
       oqs_meth |-> "OQS_KEM_alg_hqc_256_3_cca2"] >>

\* The case of a group id among cases, if any.
CaseOf(cases, group_id) ==
    { cases[i] : i \in { n \in 1..Len(cases) : cases[n].label = group_id } }

\* As Create_Single without the tests of OQS_KEM_alg_is_enabled.
Create_Single_unguarded(group_id, mem) ==
    CASE group_id = SSL_CURVE.SECP224R1 ->
             ECKeyShare(NID.secp224r1, SSL_CURVE.SECP224R1)
      [] group_id = SSL_CURVE_SECP256R1 ->
             ECKeyShare(NID_X9_62_prime256v1, SSL_CURVE_SECP256R1)
      [] group_id = SSL_CURVE.SECP384R1 ->
             ECKeyShare(NID.secp384r1, SSL_CURVE.SECP384R1)
      [] group_id = SSL_CURVE.SECP521R1 ->
             ECKeyShare(NID.secp521r1, SSL_CURVE.SECP521R1)
      [] group_id = SSL_CURVE_X25519 -> X25519KeyShare(mem)
      [] group_id = SSL_CURVE_CECPQ2 -> CECPQ2KeyShare(mem)
      [] CaseOf(OQSCases, group_id) # {} ->
             OQSKeyShare(
                 (CHOOSE c \in CaseOf(OQSCases, group_id) : TRUE).new_group_id,
                 (CHOOSE c \in CaseOf(OQSCases, group_id) : TRUE).oqs_meth)
      [] OTHER -> NoKeyShare

\* The cases of SSLKeyShare::Create(uint16_t) that build a backend of one
\* algorithm; a hybrid's classical_group_id is always one of these.
Create_Single(group_id, mem) ==
    LET Guarded(c) ==
            IF OQS_KEM_alg_is_enabled(c.enabled)
            THEN OQSKeyShare(c.new_group_id, c.oqs_meth)
            ELSE NoKeyShare
    IN  CASE group_id = SSL_CURVE.SECP224R1 ->
                 ECKeyShare(NID.secp224r1, SSL_CURVE.SECP224R1)
          [] group_id = SSL_CURVE_SECP256R1 ->
                 ECKeyShare(NID_X9_62_prime256v1, SSL_CURVE_SECP256R1)
          [] group_id = SSL_CURVE.SECP384R1 ->
                 ECKeyShare(NID.secp384r1, SSL_CURVE.SECP384R1)
          [] group_id = SSL_CURVE.SECP521R1 ->
                 ECKeyShare(NID.secp521r1, SSL_CURVE.SECP521R1)
          [] group_id = SSL_CURVE_X25519 -> X25519KeyShare(mem)
          [] group_id = SSL_CURVE_CECPQ2 -> CECPQ2KeyShare(mem)
          [] CaseOf(OQSCases, group_id) # {} ->
                 Guarded(CHOOSE c \in CaseOf(OQSCases, group_id) : TRUE)
          [] OTHER -> NoKeyShare

\* As ClassicalWithOQSKeyShare's constructor with group_id_ taken from
\* classical_group_id.
ClassicalWithOQSKeyShare_wrong_id(group_id, classical_group_id, oqs_meth, mem) ==
    [kind |-> "HYBRID", group_id |-> classical_group_id,
     classical_kex_ |-> Create_Single(classical_group_id, mem),
     pq_kex_ |-> OQSKeyShare(0, oqs_meth)]

\* As ClassicalWithOQSKeyShare's constructor with P-256 for every hybrid.
ClassicalWithOQSKeyShare_p256(group_id, classical_group_id, oqs_meth, mem) ==
    [kind |-> "HYBRID", group_id |-> group_id,
     classical_kex_ |-> Create_Single(SSL_CURVE_SECP256R1, mem),
     pq_kex_ |-> OQSKeyShare(0, oqs_meth)]

\* ClassicalWithOQSKeyShare's constructor: the hybrid owns its sub-backends.
ClassicalWithOQSKeyShare(group_id, classical_group_id, oqs_meth, mem) ==
    [kind |-> "HYBRID", group_id |-> group_id,
     classical_kex_ |-> Create_Single(classical_group_id, mem),
     pq_kex_ |-> OQSKeyShare(0, oqs_meth)]

\* As SSLKeyShare::Create(uint16_t) in a factory that needs the PQ library
\* for every group.
SSLKeyShare_Create_needs_oqs(group_id, mem) ==
    IF oqs_enabled = {} THEN NoKeyShare
    ELSE IF CaseOf(HybridCases, group_id) # {}
    THEN ClassicalWithOQSKeyShare(
             group_id,
             (CHOOSE c \in CaseOf(HybridCases, group_id) : TRUE).classical_group_id,
             (CHOOSE c \in CaseOf(HybridCases, group_id) : TRUE).oqs_meth, mem)
    ELSE Create_Single(group_id, mem)

\* SSLKeyShare::Create(uint16_t); mem is what the allocation holds.
SSLKeyShare_Create(group_id, mem) ==
    LET Guarded(c) ==
            IF OQS_KEM_alg_is_enabled(c.enabled)
            THEN ClassicalWithOQSKeyShare(c.new_group_id, c.classical_group_id,
                                          c.oqs_meth, mem)
            ELSE NoKeyShare
    IN  IF CaseOf(HybridCases, group_id) # {}
        THEN Guarded(CHOOSE c \in CaseOf(HybridCases, group_id) : TRUE)
        ELSE Create_Single(group_id, mem)

GroupID(k) ==
    CASE k.kind = "X25519" -> SSL_CURVE_X25519
      [] k.kind = "CECPQ2" -> SSL_CURVE_CECPQ2
      [] k.kind = "none" -> 0
      [] OTHER -> k.group_id

\* Finish on the key the object held before, then Offer.
SSLKeyShare_Accept_finish_first(k, e, peer_key) ==
    LET Offered(f, o) ==
            IF o.crash THEN o
            ELSE Res(o.ok, Stored(SSL_AD_INTERNAL_ERROR, f.alert), o.out,
                     f.secret, o.self)
        Finished(f) ==
            IF f.crash \/ ~f.ok THEN f
            ELSE Offered(f, IF k.kind = "EC" THEN ECKeyShare_Offer(f.self, e)
                            ELSE X25519KeyShare_Offer(f.self, e))
    IN  Finished(IF k.kind = "EC"
                 THEN ECKeyShare_Finish(k, SubEnv(e, "finish", e.rnd), peer_key)
                 ELSE X25519KeyShare_Finish(k, SubEnv(e, "finish", e.rnd),
                                            peer_key))

\* Offer and Finish joined without short-circuit: Finish runs whatever
\* Offer returned.
SSLKeyShare_Accept_finish_always(k, e, peer_key) ==
    LET Finished(o, f) ==
            IF f.crash THEN f
            ELSE Res(o.ok /\ f.ok, Stored(SSL_AD_INTERNAL_ERROR, f.alert),
                     o.out, f.secret, f.self)
        Offered(o) ==
            IF o.crash THEN o
            ELSE Finished(o,
                     IF k.kind = "EC"
                     THEN ECKeyShare_Finish(o.self, SubEnv(e, "finish", e.rnd),
                                            peer_key)
                     ELSE X25519KeyShare_Finish(o.self,
                                                SubEnv(e, "finish", e.rnd),
                                                peer_key))
    IN  Offered(IF k.kind = "EC" THEN ECKeyShare_Offer(k, e)
                ELSE X25519KeyShare_Offer(k, e))

\* SSLKeyShare::Accept, the default only the EC and X25519 backends inherit:
\* its virtual Offer and Finish are theirs.
SSLKeyShare_Accept(k, e, peer_key) ==
    LET Finished(o, f) ==
            IF f.crash THEN f
            ELSE Res(f.ok, Stored(SSL_AD_INTERNAL_ERROR, f.alert), o.out,
                     f.secret, f.self)
        Offered(o) ==
            IF o.crash THEN o
            ELSE IF ~o.ok
            THEN Res(FALSE, SSL_AD_INTERNAL_ERROR, o.out, <<>>, o.self)
            ELSE Finished(o,
                     IF k.kind = "EC"
                     THEN ECKeyShare_Finish(o.self, SubEnv(e, "finish", e.rnd),
                                            peer_key)
                     ELSE X25519KeyShare_Finish(o.self,
                                                SubEnv(e, "finish", e.rnd),
                                                peer_key))
    IN  Offered(IF k.kind = "EC" THEN ECKeyShare_Offer(k, e)
                ELSE X25519KeyShare_Offer(k, e))

\* Virtual dispatch on a backend of one algorithm.
Single_Offer(k, e) ==
    CASE k.kind = "EC" -> ECKeyShare_Offer(k, e)
      [] k.kind = "X25519" -> X25519KeyShare_Offer(k, e)
      [] k.kind = "CECPQ2" -> CECPQ2KeyShare_Offer(k, e)
      [] k.kind = "OQS" -> OQSKeyShare_Offer(k, e)

Single_Accept(k, e, peer_key) ==
    CASE k.kind \in {"EC", "X25519"} -> SSLKeyShare_Accept(k, e, peer_key)
      [] k.kind = "CECPQ2" -> CECPQ2KeyShare_Accept(k, e, peer_key)
      [] k.kind = "OQS" -> OQSKeyShare_Accept(k, e, peer_key)

Single_Finish(k, e, peer_key) ==
    CASE k.kind = "EC" -> ECKeyShare_Finish(k, e, peer_key)
      [] k.kind = "X25519" -> X25519KeyShare_Finish(k, e, peer_key)
      [] k.kind = "CECPQ2" -> CECPQ2KeyShare_Finish(k, e, peer_key)
      [] k.kind = "OQS" -> OQSKeyShare_Finish(k, e, peer_key)

(***************************************************************************)
(* ClassicalWithOQSKeyShare: u16 len_A || A || u16 len_B || B.             *)
(***************************************************************************)
\* What a call on a sub-backend consumed and produced.
SubCall(peer, r) ==
    [called |-> TRUE, peer |-> peer, ok |-> r.ok, alert |-> r.alert,
     out |-> r.out, secret |-> r.secret]

\* peer_key[i] (i counted from 0) where the index is not checked: beyond the
\* end it yields whatever lies there.
SpanAt(s, i, e) == IF i < Len(s) THEN s[i + 1] ELSE e.mem

\* Both lengths, then both parts.
HybridFrame_lengths_first(A, B) ==
    CBB_add_u16(Len(A)) \o CBB_add_u16(Len(B)) \o A \o B

\* What the hybrid appends for the parts A and B its sub-backends produced:
\* CBB_add_u16 / CBB_add_bytes, twice.
HybridFrame(A, B) ==
    CBB_add_u16(Len(A)) \o A \o CBB_add_u16(Len(B)) \o B

\* The two secrets, the post-quantum one first.
out_secret_cbb_swapped(out_classical_secret, out_pq_secret) ==
    out_pq_secret \o out_classical_secret

\* out_secret_cbb: the classical secret, then the post-quantum one.
out_secret_cbb(out_classical_secret, out_pq_secret) ==
    out_classical_secret \o out_pq_secret

\* What the hybrid returns once both sub-backends were called.
Both(r, c, peerC, q, peerP, oob) ==
    [r EXCEPT !.subC = SubCall(peerC, c), !.subP = SubCall(peerP, q),
              !.oob = oob]

ClassicalWithOQSKeyShare_Offer(k, e) ==
    LET Framed(c, q, k2) ==
            IF q.crash THEN Abort(k2)
            ELSE IF ~q.ok \/ Fails(e, "out")
            THEN Both(Res(FALSE, NoAlert, <<>>, <<>>, k2), c, <<>>, q, <<>>, FALSE)
            ELSE Both(Res(TRUE, NoAlert,
                          HybridFrame(c.out, q.out),
                          <<>>, k2),
                      c, <<>>, q, <<>>, FALSE)
        Second(c, q, k1) == Framed(c, q, [k1 EXCEPT !.pq_kex_ = q.self])
        First(c, k1) ==
            IF Fails(e, "alloc") THEN Res(FALSE, NoAlert, <<>>, <<>>, k)
            ELSE IF c.crash THEN Abort(k1)
            ELSE IF ~c.ok
            THEN [Res(FALSE, NoAlert, <<>>, <<>>, k1) EXCEPT
                      !.subC = SubCall(<<>>, c)]
            ELSE Second(c, OQSKeyShare_Offer(k.pq_kex_,
                                             SubEnv(e, "pq", Rand2(e))),
                        k1)
        Called(c) == First(c, [k EXCEPT !.classical_kex_ = c.self])
    IN  Called(Single_Offer(k.classical_kex_, SubEnv(e, "classical", e.rnd)))

\* A parse that takes the second part to run to the end of peer_key.
HybridParse_to_the_end(peer_key, e) ==
    LET Sized(size_A) ==
            [size_A |-> size_A,
             size_B |-> IF Len(peer_key) >= 2 + size_A + 2
                        THEN Len(peer_key) - (2 + size_A + 2)
                        ELSE 0,
             oob |-> Len(peer_key) < 2 + size_A + 2,
             abort_A |-> 2 > Len(peer_key),
             abort_B |-> 2 + size_A + 2 > Len(peer_key),
             A |-> subspan(peer_key, 2, size_A),
             pos_B |-> 2 + size_A + 2]
    IN  Sized((SpanAt(peer_key, 0, e) * 256 + SpanAt(peer_key, 1, e)) % 65536)

\* A parse that takes the second part to start where the first ends.
HybridParse_no_second_length(peer_key, e) ==
    LET Sized(size_A) ==
            [size_A |-> size_A,
             size_B |-> (SpanAt(peer_key, 2 + size_A, e) * 256
                            + SpanAt(peer_key, 2 + size_A + 1, e)) % 65536,
             oob |-> Len(peer_key) < 2 + size_A + 2,
             abort_A |-> 2 > Len(peer_key),
             abort_B |-> 2 + size_A > Len(peer_key),
             A |-> subspan(peer_key, 2, size_A),
             pos_B |-> 2 + size_A]
    IN  Sized((SpanAt(peer_key, 0, e) * 256 + SpanAt(peer_key, 1, e)) % 65536)

\* The parse both Accept and Finish start with: two length fields read by
\* index, neither checked against peer_key.size(); the first part is
\* peer_key.subspan(2, size_A), the second starts at pos_B.
HybridParse(peer_key, e) ==
    LET Sized(size_A) ==
            [size_A |-> size_A,
             size_B |-> (SpanAt(peer_key, 2 + size_A, e) * 256
                            + SpanAt(peer_key, 2 + size_A + 1, e)) % 65536,
             oob |-> Len(peer_key) < 2 + size_A + 2,
             \* subspan(pos, len) aborts when pos > size
             abort_A |-> 2 > Len(peer_key),
             abort_B |-> 2 + size_A + 2 > Len(peer_key),
             A |-> subspan(peer_key, 2, size_A),
             pos_B |-> 2 + size_A + 2]
    IN  Sized((SpanAt(peer_key, 0, e) * 256 + SpanAt(peer_key, 1, e)) % 65536)

\* As ClassicalWithOQSKeyShare::Accept writing each part to out_public_key
\* as soon as its sub-backend has produced it.
ClassicalWithOQSKeyShare_Accept_streamed(k, e, peer_key) ==
    LET Framed(in, B, c, q, k2) ==
            IF in.abort_B \/ q.crash THEN [Abort(k2) EXCEPT !.oob = in.oob]
            ELSE IF ~q.ok \/ Fails(e, "out")
            THEN Both(Res(FALSE, Stored(c.alert, q.alert),
                          CBB_add_u16(Len(c.out)) \o c.out, <<>>, k2),
                      c, in.A, q, B, in.oob)
            ELSE Both(Res(TRUE, Stored(c.alert, q.alert),
                          HybridFrame(c.out, q.out),
                          out_secret_cbb(c.secret, q.secret), k2),
                      c, in.A, q, B, in.oob)
        Second(in, B, c, q, k1) ==
            Framed(in, B, c, q, [k1 EXCEPT !.pq_kex_ = q.self])
        First(in, B, c, k1) ==
            IF in.oob /\ e.oob = "abort" THEN [Abort(k) EXCEPT !.oob = in.oob]
            ELSE IF Fails(e, "alloc")
            THEN [Res(FALSE, NoAlert, <<>>, <<>>, k) EXCEPT !.oob = in.oob]
            ELSE IF in.abort_A \/ c.crash THEN [Abort(k1) EXCEPT !.oob = in.oob]
            ELSE IF ~c.ok
            THEN [Res(FALSE, c.alert, <<>>, <<>>, k1) EXCEPT
                      !.subC = SubCall(in.A, c), !.oob = in.oob]
            ELSE Second(in, B, c,
                        OQSKeyShare_Accept(k.pq_kex_, SubEnv(e, "pq", Rand2(e)), B),
                        k1)
        Called(in, B, c) == First(in, B, c, [k EXCEPT !.classical_kex_ = c.self])
        Parsed(in) ==
            Called(in, subspan(peer_key, in.pos_B, in.size_B),
                   Single_Accept(k.classical_kex_,
                                 SubEnv(e, "classical", e.rnd), in.A))
    IN  Parsed(HybridParse(peer_key, e))

ClassicalWithOQSKeyShare_Accept(k, e, peer_key) ==
    LET Framed(in, B, c, q, k2) ==
            IF in.abort_B \/ q.crash THEN [Abort(k2) EXCEPT !.oob = in.oob]
            ELSE IF ~q.ok \/ Fails(e, "out")
            THEN Both(Res(FALSE, Stored(c.alert, q.alert), <<>>, <<>>, k2),
                      c, in.A, q, B, in.oob)
            ELSE Both(Res(TRUE, Stored(c.alert, q.alert),
                          HybridFrame(c.out, q.out),
                          out_secret_cbb(c.secret, q.secret), k2),
                      c, in.A, q, B, in.oob)
        Second(in, B, c, q, k1) ==
            Framed(in, B, c, q, [k1 EXCEPT !.pq_kex_ = q.self])
        First(in, B, c, k1) ==
            \* an index past the end aborts where the Span checks it
            IF in.oob /\ e.oob = "abort" THEN [Abort(k) EXCEPT !.oob = in.oob]
            ELSE IF Fails(e, "alloc")
            THEN [Res(FALSE, NoAlert, <<>>, <<>>, k) EXCEPT !.oob = in.oob]
            ELSE IF in.abort_A \/ c.crash THEN [Abort(k1) EXCEPT !.oob = in.oob]
            ELSE IF ~c.ok
            THEN [Res(FALSE, c.alert, <<>>, <<>>, k1) EXCEPT
                      !.subC = SubCall(in.A, c), !.oob = in.oob]
            ELSE Second(in, B, c,
                        OQSKeyShare_Accept(k.pq_kex_, SubEnv(e, "pq", Rand2(e)), B),
                        k1)
        Called(in, B, c) == First(in, B, c, [k EXCEPT !.classical_kex_ = c.self])
        Parsed(in) ==
            Called(in, subspan(peer_key, in.pos_B, in.size_B),
                   Single_Accept(k.classical_kex_,
                                 SubEnv(e, "classical", e.rnd), in.A))
    IN  Parsed(HybridParse(peer_key, e))

ClassicalWithOQSKeyShare_Finish(k, e, peer_key) ==
    LET Joined(in, B, c, q, k2) ==
            IF in.abort_B \/ q.crash THEN [Abort(k2) EXCEPT !.oob = in.oob]
            ELSE IF ~q.ok \/ Fails(e, "alloc") \/ Fails(e, "out")
            THEN Both(Res(FALSE, Stored(c.alert, q.alert), <<>>, <<>>, k2),
                      c, in.A, q, B, in.oob)
            ELSE Both(Res(TRUE, Stored(c.alert, q.alert), <<>>,
                          out_secret_cbb(c.secret, q.secret), k2),
                      c, in.A, q, B, in.oob)
        Second(in, B, c, q, k1) ==
            Joined(in, B, c, q, [k1 EXCEPT !.pq_kex_ = q.self])
        First(in, B, c, k1) ==
            IF in.oob /\ e.oob = "abort" THEN [Abort(k) EXCEPT !.oob = in.oob]
            ELSE IF in.abort_A \/ c.crash THEN [Abort(k1) EXCEPT !.oob = in.oob]
            ELSE IF ~c.ok
            THEN [Res(FALSE, c.alert, <<>>, <<>>, k1) EXCEPT
                      !.subC = SubCall(in.A, c), !.oob = in.oob]
            ELSE Second(in, B, c,
                        OQSKeyShare_Finish(k.pq_kex_, SubEnv(e, "pq", Rand2(e)), B),
                        k1)
        Called(in, B, c) == First(in, B, c, [k EXCEPT !.classical_kex_ = c.self])
        Parsed(in) ==
            Called(in, subspan(peer_key, in.pos_B, in.size_B),
                   Single_Finish(k.classical_kex_,
                                 SubEnv(e, "classical", e.rnd), in.A))
    IN  Parsed(HybridParse(peer_key, e))

(***************************************************************************)
(* Virtual dispatch.                                                       *)
(***************************************************************************)
KeyShare_Offer(k, e) ==
    IF k.kind = "HYBRID" THEN ClassicalWithOQSKeyShare_Offer(k, e)
    ELSE Single_Offer(k, e)

KeyShare_Accept(k, e, peer_key) ==
    IF k.kind = "HYBRID" THEN ClassicalWithOQSKeyShare_Accept(k, e, peer_key)
    ELSE Single_Accept(k, e, peer_key)

KeyShare_Finish(k, e, peer_key) ==
    IF k.kind = "HYBRID" THEN ClassicalWithOQSKeyShare_Finish(k, e, peer_key)
    ELSE Single_Finish(k, e, peer_key)

\* Serialize / Deserialize: the base class refuses; EC and X25519 override.
KeyShare_Serialize(k, e) ==
    CASE k.kind = "EC" -> ECKeyShare_Serialize(k, e)
      [] k.kind = "X25519" -> X25519KeyShare_Serialize(k, e)
      [] OTHER -> Res(FALSE, NoAlert, <<>>, <<>>, k)

KeyShare_Deserialize(k, e, in) ==
    CASE k.kind = "EC" -> ECKeyShare_Deserialize(k, e, in)
      [] k.kind = "X25519" -> X25519KeyShare_Deserialize(k, e, in)
      [] OTHER -> Res(FALSE, NoAlert, <<>>, <<>>, k)

\* As SSLKeyShare::Create(CBS *) without the test of Deserialize's result.
SSLKeyShare_Create_CBS_unchecked(in, mem, e) ==
    IF /\ CBS_get_asn1_uint64(in).ok
       /\ CBS_get_asn1_uint64(in).value <= 65535
       /\ SSLKeyShare_Create(CBS_get_asn1_uint64(in).value, mem) # NoKeyShare
    THEN Res(TRUE, NoAlert, <<>>, <<>>,
             KeyShare_Deserialize(
                 SSLKeyShare_Create(CBS_get_asn1_uint64(in).value, mem), e,
                 CBS_get_asn1_uint64(in).rest).self)
    ELSE Res(FALSE, NoAlert, <<>>, <<>>, NoKeyShare)

\* SSLKeyShare::Create(CBS *): the group id, the object of that group, and
\* its Deserialize on what follows the group id.  self is the object
\* returned, NoKeyShare for nullptr.
SSLKeyShare_Create_CBS(in, mem, e) ==
    LET Loaded(d) ==
            IF ~d.ok THEN Res(FALSE, NoAlert, <<>>, <<>>, NoKeyShare)
            ELSE Res(TRUE, NoAlert, <<>>, <<>>, d.self)
        Made(key_share, rest) ==
            IF key_share = NoKeyShare
            THEN Res(FALSE, NoAlert, <<>>, <<>>, NoKeyShare)
            ELSE Loaded(KeyShare_Deserialize(key_share, e, rest))
        Parsed(group) ==
            IF ~group.ok \/ group.value > 65535
            THEN Res(FALSE, NoAlert, <<>>, <<>>, NoKeyShare)
            ELSE Made(SSLKeyShare_Create(group.value, mem), group.rest)
    IN  Parsed(CBS_get_asn1_uint64(in))

(***************************************************************************)
(* The signature-algorithm dispatcher of crypto/x509/algorithm.c.  NIDs    *)
(* and key types are named, not numbered: EVP_PKEY_id is the NID of the    *)
(* key's algorithm.  A null pointer is the record Null.                    *)
(***************************************************************************)
Null == [null |-> TRUE]

NID_undef == "undef"
NID_rsassaPss == "rsassaPss"
NID_ED25519 == "ED25519"
EVP_PKEY_RSA == "rsaEncryption"
EVP_PKEY_EC == "id-ecPublicKey"
EVP_PKEY_DSA == "dsa"
EVP_PKEY_ED25519 == NID_ED25519

\* The key types compared with pkey_id between the markers
\* OQS_TEMPLATE_FRAGMENT_CHECK_PKEY_ID: EVP_PKEY_<name> for each name.
OQSSigKeyTypes ==
    { "OQS_SIG_DEFAULT", "DILITHIUM2", "DILITHIUM3", "DILITHIUM4",
      "FALCON512", "FALCON1024", "PICNICL1FS", "PICNICL1UR",
      "PICNICL1FULL", "PICNIC3L1", "PICNIC3L3", "PICNIC3L5",
      "RAINBOWIACLASSIC", "RAINBOWIACYCLIC", "RAINBOWIACYCLICCOMPRESSED",
      "RAINBOWIIICCLASSIC", "RAINBOWIIICCYCLIC",
      "RAINBOWIIICCYCLICCOMPRESSED", "RAINBOWVCCLASSIC", "RAINBOWVCCYCLIC",
      "RAINBOWVCCYCLICCOMPRESSED", "SPHINCSHARAKA128FROBUST",
      "SPHINCSHARAKA128FSIMPLE", "SPHINCSHARAKA128SROBUST",
      "SPHINCSHARAKA128SSIMPLE", "SPHINCSHARAKA192FROBUST",
      "SPHINCSHARAKA192FSIMPLE", "SPHINCSHARAKA192SROBUST",
      "SPHINCSHARAKA192SSIMPLE", "SPHINCSHARAKA256FROBUST",
      "SPHINCSHARAKA256FSIMPLE", "SPHINCSHARAKA256SROBUST",
      "SPHINCSHARAKA256SSIMPLE", "SPHINCSSHA256128FROBUST",
      "SPHINCSSHA256128FSIMPLE", "SPHINCSSHA256128SROBUST",
      "SPHINCSSHA256128SSIMPLE", "SPHINCSSHA256192FROBUST",
      "SPHINCSSHA256192FSIMPLE", "SPHINCSSHA256192SROBUST",
      "SPHINCSSHA256192SSIMPLE", "SPHINCSSHA256256FROBUST",
      "SPHINCSSHA256256FSIMPLE", "SPHINCSSHA256256SROBUST",
      "SPHINCSSHA256256SSIMPLE", "SPHINCSSHAKE256128FROBUST",
      "SPHINCSSHAKE256128FSIMPLE", "SPHINCSSHAKE256128SROBUST",
      "SPHINCSSHAKE256128SSIMPLE", "SPHINCSSHAKE256192FROBUST",
      "SPHINCSSHAKE256192FSIMPLE", "SPHINCSSHAKE256192SROBUST",
      "SPHINCSSHAKE256192SSIMPLE", "SPHINCSSHAKE256256FROBUST",
      "SPHINCSSHAKE256256FSIMPLE", "SPHINCSSHAKE256256SROBUST",
      "SPHINCSSHAKE256256SSIMPLE" }

RSA_PKCS1_PADDING == "RSA_PKCS1_PADDING"
RSA_PKCS1_PSS_PADDING == "RSA_PKCS1_PSS_PADDING"

V_ASN1_UNDEF == "V_ASN1_UNDEF"
V_ASN1_NULL == "V_ASN1_NULL"
V_ASN1_SEQUENCE == "V_ASN1_SEQUENCE"

NoError == "none"
ASN1_R_CONTEXT_NOT_INITIALISED == "CONTEXT_NOT_INITIALISED"
ASN1_R_DIGEST_AND_KEY_TYPE_NOT_SUPPORTED == "DIGEST_AND_KEY_TYPE_NOT_SUPPORTED"
ASN1_R_UNKNOWN_SIGNATURE_ALGORITHM == "UNKNOWN_SIGNATURE_ALGORITHM"
ASN1_R_WRONG_PUBLIC_KEY_TYPE == "WRONG_PUBLIC_KEY_TYPE"
ASN1_R_UNKNOWN_MESSAGE_DIGEST_ALGORITHM == "UNKNOWN_MESSAGE_DIGEST_ALGORITHM"
X509_R_INVALID_PARAMETER == "INVALID_PARAMETER"
X509_R_INVALID_PSS_PARAMETER == "INVALID_PSS_PARAMETER"

\* OBJ_nid2obj / OBJ_obj2nid: the object registered under a NID, and the NID
\* of an object (NID_undef for an OID the library does not know).
OBJ_nid2obj(nid) == [nid |-> nid]

OBJ_obj2nid(obj) == IF "nid" \in DOMAIN obj THEN obj.nid ELSE NID_undef

\* An EVP_PKEY of a type; EVP_PKEY_id.
EVP_PKEY(type) == [type |-> type]

EVP_PKEY_id(pkey) == pkey.type

\* EVP_PKEY_CTX_get0_pkey.
EVP_PKEY_CTX_get0_pkey(pctx) == pctx.pkey

\* EVP_MD_CTX_md / EVP_MD_type: a digest is known by its NID.
EVP_MD_CTX_md(ctx) == ctx.digest

EVP_MD_type(digest) == digest.nid

\* EVP_get_digestbynid: the digests the library implements.
Digests == {"md5", "sha1", "sha256", "sha512"}

EVP_get_digestbynid(nid) == IF nid \in Digests THEN [nid |-> nid] ELSE Null

\* The triples (signature NID, digest NID, key NID) of obj_xref.c that do
\* not depend on the PQ integration.
ClassicalTriples ==
    { [sign |-> "md2WithRSAEncryption", digest |-> "md2", pkey |-> EVP_PKEY_RSA],
      [sign |-> "md5WithRSAEncryption", digest |-> "md5", pkey |-> EVP_PKEY_RSA],
      [sign |-> "sha1WithRSAEncryption", digest |-> "sha1", pkey |-> EVP_PKEY_RSA],
      [sign |-> "sha256WithRSAEncryption", digest |-> "sha256", pkey |-> EVP_PKEY_RSA],
      [sign |-> "sha512WithRSAEncryption", digest |-> "sha512", pkey |-> EVP_PKEY_RSA],
      [sign |-> "dsaWithSHA1", digest |-> "sha1", pkey |-> EVP_PKEY_DSA],
      [sign |-> "ecdsa-with-SHA1", digest |-> "sha1", pkey |-> EVP_PKEY_EC],
      [sign |-> "ecdsa-with-SHA256", digest |-> "sha256", pkey |-> EVP_PKEY_EC],
      [sign |-> "ecdsa-with-SHA512", digest |-> "sha512", pkey |-> EVP_PKEY_EC],
      [sign |-> NID_rsassaPss, digest |-> NID_undef, pkey |-> EVP_PKEY_RSA],
      [sign |-> NID_ED25519, digest |-> NID_undef, pkey |-> EVP_PKEY_ED25519] }

\* The triples of the PQ signature schemes, each its own signature NID,
\* all with the digest NID d.
OQSTriples(d) ==
    { [sign |-> t, digest |-> d, pkey |-> t] : t \in OQSSigKeyTypes }

\* The tables a build may have: the PQ schemes entered without a digest, as
\* Ed25519 is, or with one.
XrefBuilds ==
    { ClassicalTriples \cup OQSTriples(d) : d \in {NID_undef, "sha256"} }

\* OBJ_find_sigid_algs: the digest and key NIDs of a signature NID.
OBJ_find_sigid_algs(sign_nid) ==
    LET hits == { t \in obj_xref : t.sign = sign_nid }
    IN  IF hits = {}
        THEN [ok |-> FALSE, digest_nid |-> NID_undef, pkey_nid |-> NID_undef]
        ELSE LET Hit(t) == [ok |-> TRUE, digest_nid |-> t.digest,
                            pkey_nid |-> t.pkey]
             IN  Hit(CHOOSE t \in hits : TRUE)

\* OBJ_find_sigid_by_algs: the signature NID of a digest and a key NID.
OBJ_find_sigid_by_algs(digest_nid, pkey_nid) ==
    LET hits == { t \in obj_xref : t.digest = digest_nid /\ t.pkey = pkey_nid }
    IN  IF hits = {} THEN [ok |-> FALSE, sign_nid |-> NID_undef]
        ELSE LET Hit(t) == [ok |-> TRUE, sign_nid |-> t.sign]
             IN  Hit(CHOOSE t \in hits : TRUE)

\* An X509_ALGOR: the algorithm object and the parameter, Null when absent.
X509_ALGOR(algorithm, parameter) ==
    [algorithm |-> algorithm, parameter |-> parameter]

\* An ASN1_TYPE of the given type and value.
ASN1_TYPE(type, value) == [type |-> type, value |-> value]

\* X509_ALGOR_set0(alg, aobj, ptype, NULL): for a ptype other than
\* V_ASN1_UNDEF the parameter is allocated if alg has none, and the call
\* fails, alg untouched, if that allocation fails; then the algorithm is
\* replaced and the parameter freed (V_ASN1_UNDEF) or set to ptype.
X509_ALGOR_set0(alg, aobj, ptype, alloc_fails) ==
    IF ptype # V_ASN1_UNDEF /\ alg.parameter = Null /\ alloc_fails
    THEN [ret |-> 0, alg |-> alg]
    ELSE [ret |-> 1,
          alg |-> X509_ALGOR(aobj, IF ptype = V_ASN1_UNDEF THEN Null
                                   ELSE ASN1_TYPE(ptype, Null))]

\* The environment of a dispatcher call: whether the padding mode can be
\* read, whether the RSA-PSS encoder / decoder and EVP_DigestVerifyInit
\* succeed, whether the allocation inside X509_ALGOR_set0 fails.
X509Env ==
    [pad_ok : BOOLEAN, pss_ok : BOOLEAN, init_ok : BOOLEAN,
     alloc_fails : BOOLEAN]

\* What x509_digest_sign_algorithm returns: ret, the error it put, the
\* descriptor afterwards, and the NID and parameter type it selected (Null
\* when it selected none itself).
Encoded(ret, err, alg, selected) ==
    [ret |-> ret, err |-> err, algor |-> alg, selected |-> selected]

\* x509_rsa_ctx_to_pss: the descriptor of RSASSA-PSS with the parameters of
\* the context, or failure with the descriptor untouched.
x509_rsa_ctx_to_pss(ctx, alg, e) ==
    IF ~e.pss_ok THEN Encoded(0, X509_R_INVALID_PSS_PARAMETER, alg, Null)
    ELSE Encoded(1, NoError,
                 X509_ALGOR(OBJ_nid2obj(NID_rsassaPss),
                            ASN1_TYPE(V_ASN1_SEQUENCE,
                                      [hash |-> ctx.digest,
                                       saltlen |-> ctx.pctx.saltlen])),
                 Null)

\* As x509_digest_sign_algorithm writing an explicit NULL parameter for the
\* key types that are their own signature OID as well.
x509_digest_sign_algorithm_null_for_all(ctx, alg, e) ==
    LET pkey == EVP_PKEY_CTX_get0_pkey(ctx.pctx)
        Own(pkey_id, r) ==
            Encoded(r.ret, NoError, r.alg,
                    [nid |-> pkey_id, paramtype |-> V_ASN1_NULL])
        Paired(sign_nid, paramtype, r) ==
            Encoded(1, NoError, r.alg,
                    [nid |-> sign_nid, paramtype |-> paramtype])
        Found(f, paramtype) ==
            IF ~f.ok
            THEN Encoded(0, ASN1_R_DIGEST_AND_KEY_TYPE_NOT_SUPPORTED, alg, Null)
            ELSE Paired(f.sign_nid, paramtype,
                        X509_ALGOR_set0(alg, OBJ_nid2obj(f.sign_nid), paramtype,
                                        e.alloc_fails))
    IN  IF pkey = Null
        THEN Encoded(0, ASN1_R_CONTEXT_NOT_INITIALISED, alg, Null)
        ELSE IF EVP_PKEY_id(pkey) = EVP_PKEY_RSA /\ ~e.pad_ok
        THEN Encoded(0, NoError, alg, Null)
        ELSE IF EVP_PKEY_id(pkey) = EVP_PKEY_RSA
                /\ ctx.pctx.pad_mode = RSA_PKCS1_PSS_PADDING
        THEN x509_rsa_ctx_to_pss(ctx, alg, e)
        ELSE IF EVP_PKEY_id(pkey) = EVP_PKEY_ED25519
                \/ EVP_PKEY_id(pkey) \in OQSSigKeyTypes
        THEN Own(EVP_PKEY_id(pkey),
                 X509_ALGOR_set0(alg, OBJ_nid2obj(EVP_PKEY_id(pkey)),
                                 V_ASN1_NULL, e.alloc_fails))
        ELSE IF EVP_MD_CTX_md(ctx) = Null
        THEN Encoded(0, ASN1_R_CONTEXT_NOT_INITIALISED, alg, Null)
        ELSE Found(OBJ_find_sigid_by_algs(EVP_MD_type(EVP_MD_CTX_md(ctx)),
                                          EVP_PKEY_id(pkey)),
                   V_ASN1_NULL)

\* As x509_digest_sign_algorithm looking at the digest before the key type.
x509_digest_sign_algorithm_digest_first(ctx, alg, e) ==
    LET pkey == EVP_PKEY_CTX_get0_pkey(ctx.pctx)
    IN  IF pkey = Null \/ EVP_MD_CTX_md(ctx) = Null
        THEN Encoded(0, ASN1_R_CONTEXT_NOT_INITIALISED, alg, Null)
        ELSE IF EVP_PKEY_id(pkey) = EVP_PKEY_RSA
                /\ ctx.pctx.pad_mode = RSA_PKCS1_PSS_PADDING
        THEN x509_rsa_ctx_to_pss(ctx, alg, e)
        ELSE Encoded(1, NoError,
                     X509_ALGOR(OBJ_nid2obj(EVP_PKEY_id(pkey)), Null),
                     [nid |-> EVP_PKEY_id(pkey), paramtype |-> V_ASN1_UNDEF])

x509_digest_sign_algorithm(ctx, alg, e) ==
    LET pkey == EVP_PKEY_CTX_get0_pkey(ctx.pctx)
        \* return X509_ALGOR_set0(algor, OBJ_nid2obj(pkey_id), V_ASN1_UNDEF, NULL)
        Own(pkey_id, r) ==
            Encoded(r.ret, NoError, r.alg,
                    [nid |-> pkey_id, paramtype |-> V_ASN1_UNDEF])
        \* X509_ALGOR_set0(algor, OBJ_nid2obj(sign_nid), paramtype, NULL);
        \* return 1
        Paired(sign_nid, paramtype, r) ==
            Encoded(1, NoError, r.alg,
                    [nid |-> sign_nid, paramtype |-> paramtype])
        Found(f, paramtype) ==
            IF ~f.ok
            THEN Encoded(0, ASN1_R_DIGEST_AND_KEY_TYPE_NOT_SUPPORTED, alg, Null)
            ELSE Paired(f.sign_nid, paramtype,
                        X509_ALGOR_set0(alg, OBJ_nid2obj(f.sign_nid), paramtype,
                                        e.alloc_fails))
    IN  IF pkey = Null
        THEN Encoded(0, ASN1_R_CONTEXT_NOT_INITIALISED, alg, Null)
        ELSE IF EVP_PKEY_id(pkey) = EVP_PKEY_RSA /\ ~e.pad_ok
        THEN \* EVP_PKEY_CTX_get_rsa_padding failed
             Encoded(0, NoError, alg, Null)
        ELSE IF EVP_PKEY_id(pkey) = EVP_PKEY_RSA
                /\ ctx.pctx.pad_mode = RSA_PKCS1_PSS_PADDING
        THEN x509_rsa_ctx_to_pss(ctx, alg, e)
        ELSE IF EVP_PKEY_id(pkey) = EVP_PKEY_ED25519
                \/ EVP_PKEY_id(pkey) \in OQSSigKeyTypes
        THEN Own(EVP_PKEY_id(pkey),
                 X509_ALGOR_set0(alg, OBJ_nid2obj(EVP_PKEY_id(pkey)),
                                 V_ASN1_UNDEF, e.alloc_fails))
        ELSE IF EVP_MD_CTX_md(ctx) = Null
        THEN Encoded(0, ASN1_R_CONTEXT_NOT_INITIALISED, alg, Null)
        ELSE Found(OBJ_find_sigid_by_algs(EVP_MD_type(EVP_MD_CTX_md(ctx)),
                                          EVP_PKEY_id(pkey)),
                   IF EVP_PKEY_id(pkey) = EVP_PKEY_RSA
                   THEN V_ASN1_NULL ELSE V_ASN1_UNDEF)

\* A verification context: not initialised, or initialised for a key with
\* a digest (Null for none) and, for RSA-PSS, the decoded parameters.
NoCtx == [initialised |-> FALSE]

\* What x509_digest_verify_init returns: ret, the error it put, the
\* context afterwards.
Decoded(ret, err, ctx) == [ret |-> ret, err |-> err, ctx |-> ctx]

\* EVP_DigestVerifyInit(ctx, NULL, digest, NULL, pkey).
EVP_DigestVerifyInit(ctx, digest, pkey, pss, e) ==
    IF ~e.init_ok THEN Decoded(0, NoError, ctx)
    ELSE Decoded(1, NoError,
                 [initialised |-> TRUE, pkey |-> pkey, digest |-> digest,
                  pss |-> pss])

\* x509_rsa_pss_to_ctx: decodes RSASSA-PSS-params and initialises the
\* context with their hash; anything else as parameter is refused.
x509_rsa_pss_to_ctx(ctx, sigalg, pkey, e) ==
    IF \/ sigalg.parameter = Null
       \/ sigalg.parameter.type # V_ASN1_SEQUENCE
       \/ sigalg.parameter.value = Null
       \/ ~e.pss_ok
    THEN Decoded(0, X509_R_INVALID_PSS_PARAMETER, ctx)
    ELSE EVP_DigestVerifyInit(ctx, sigalg.parameter.value.hash, pkey,
                              sigalg.parameter.value, e)

\* As x509_digest_verify_init accepting, for an OID with a digest, only an
\* absent or explicit NULL parameter.
x509_digest_verify_init_parameter_checked(ctx, sigalg, pkey, e) ==
    LET sigalg_nid == OBJ_obj2nid(sigalg.algorithm)
        Resolved(digest) ==
            IF digest = Null
            THEN Decoded(0, ASN1_R_UNKNOWN_MESSAGE_DIGEST_ALGORITHM, ctx)
            ELSE IF sigalg.parameter \notin {Null, ASN1_TYPE(V_ASN1_NULL, Null)}
            THEN Decoded(0, X509_R_INVALID_PARAMETER, ctx)
            ELSE EVP_DigestVerifyInit(ctx, digest, pkey, Null, e)
        Found(f) ==
            IF ~f.ok THEN Decoded(0, ASN1_R_UNKNOWN_SIGNATURE_ALGORITHM, ctx)
            ELSE IF f.pkey_nid # EVP_PKEY_id(pkey)
            THEN Decoded(0, ASN1_R_WRONG_PUBLIC_KEY_TYPE, ctx)
            ELSE IF f.digest_nid = NID_undef
            THEN IF sigalg_nid = NID_rsassaPss
                 THEN x509_rsa_pss_to_ctx(ctx, sigalg, pkey, e)
                 ELSE IF sigalg_nid = NID_ED25519
                 THEN IF sigalg.parameter # Null
                      THEN Decoded(0, X509_R_INVALID_PARAMETER, ctx)
                      ELSE EVP_DigestVerifyInit(ctx, Null, pkey, Null, e)
                 ELSE Decoded(0, ASN1_R_UNKNOWN_SIGNATURE_ALGORITHM, ctx)
            ELSE Resolved(EVP_get_digestbynid(f.digest_nid))
    IN  Found(OBJ_find_sigid_algs(sigalg_nid))

\* As x509_digest_verify_init taking an explicit NULL parameter of an
\* Ed25519 descriptor for an absent one.
x509_digest_verify_init_null_allowed(ctx, sigalg, pkey, e) ==
    LET sigalg_nid == OBJ_obj2nid(sigalg.algorithm)
        Resolved(digest) ==
            IF digest = Null
            THEN Decoded(0, ASN1_R_UNKNOWN_MESSAGE_DIGEST_ALGORITHM, ctx)
            ELSE EVP_DigestVerifyInit(ctx, digest, pkey, Null, e)
        Found(f) ==
            IF ~f.ok THEN Decoded(0, ASN1_R_UNKNOWN_SIGNATURE_ALGORITHM, ctx)
            ELSE IF f.pkey_nid # EVP_PKEY_id(pkey)
            THEN Decoded(0, ASN1_R_WRONG_PUBLIC_KEY_TYPE, ctx)
            ELSE IF f.digest_nid = NID_undef
            THEN IF sigalg_nid = NID_rsassaPss
                 THEN x509_rsa_pss_to_ctx(ctx, sigalg, pkey, e)
                 ELSE IF sigalg_nid = NID_ED25519
                 THEN IF sigalg.parameter \notin
                             {Null, ASN1_TYPE(V_ASN1_NULL, Null)}
                      THEN Decoded(0, X509_R_INVALID_PARAMETER, ctx)
                      ELSE EVP_DigestVerifyInit(ctx, Null, pkey, Null, e)
                 ELSE Decoded(0, ASN1_R_UNKNOWN_SIGNATURE_ALGORITHM, ctx)
            ELSE Resolved(EVP_get_digestbynid(f.digest_nid))
    IN  Found(OBJ_find_sigid_algs(sigalg_nid))

\* As x509_digest_verify_init comparing the key type after the digest and
\* the custom parameters were dealt with.
x509_digest_verify_init_key_last(ctx, sigalg, pkey, e) ==
    LET sigalg_nid == OBJ_obj2nid(sigalg.algorithm)
        Checked(f, r) ==
            IF r.ret = 1 /\ f.pkey_nid # EVP_PKEY_id(pkey)
            THEN Decoded(0, ASN1_R_WRONG_PUBLIC_KEY_TYPE, ctx)
            ELSE r
        Resolved(digest) ==
            IF digest = Null
            THEN Decoded(0, ASN1_R_UNKNOWN_MESSAGE_DIGEST_ALGORITHM, ctx)
            ELSE EVP_DigestVerifyInit(ctx, digest, pkey, Null, e)
        Found(f) ==
            IF ~f.ok THEN Decoded(0, ASN1_R_UNKNOWN_SIGNATURE_ALGORITHM, ctx)
            ELSE IF f.digest_nid = NID_undef
            THEN IF sigalg_nid = NID_rsassaPss
                 THEN Checked(f, x509_rsa_pss_to_ctx(ctx, sigalg, pkey, e))
                 ELSE IF sigalg_nid = NID_ED25519
                 THEN IF sigalg.parameter # Null
                      THEN Decoded(0, X509_R_INVALID_PARAMETER, ctx)
                      ELSE Checked(f, EVP_DigestVerifyInit(ctx, Null, pkey,
                                                           Null, e))
                 ELSE Decoded(0, ASN1_R_UNKNOWN_SIGNATURE_ALGORITHM, ctx)
            ELSE Checked(f, Resolved(EVP_get_digestbynid(f.digest_nid)))
    IN  Found(OBJ_find_sigid_algs(sigalg_nid))

x509_digest_verify_init(ctx, sigalg, pkey, e) ==
    LET sigalg_nid == OBJ_obj2nid(sigalg.algorithm)
        Resolved(digest) ==
            IF digest = Null
            THEN Decoded(0, ASN1_R_UNKNOWN_MESSAGE_DIGEST_ALGORITHM, ctx)
            ELSE EVP_DigestVerifyInit(ctx, digest, pkey, Null, e)
        Found(f) ==
            IF ~f.ok THEN Decoded(0, ASN1_R_UNKNOWN_SIGNATURE_ALGORITHM, ctx)
            ELSE IF f.pkey_nid # EVP_PKEY_id(pkey)
            THEN Decoded(0, ASN1_R_WRONG_PUBLIC_KEY_TYPE, ctx)
            ELSE IF f.digest_nid = NID_undef
            THEN IF sigalg_nid = NID_rsassaPss
                 THEN x509_rsa_pss_to_ctx(ctx, sigalg, pkey, e)
                 ELSE IF sigalg_nid = NID_ED25519
                 THEN IF sigalg.parameter # Null
                      THEN Decoded(0, X509_R_INVALID_PARAMETER, ctx)
                      ELSE EVP_DigestVerifyInit(ctx, Null, pkey, Null, e)
                 ELSE Decoded(0, ASN1_R_UNKNOWN_SIGNATURE_ALGORITHM, ctx)
            ELSE Resolved(EVP_get_digestbynid(f.digest_nid))
    IN  Found(OBJ_find_sigid_algs(sigalg_nid))

\* A descriptor as X509_ALGOR_new leaves it, and the dispatcher before any
\* call.
NewAlgor == X509_ALGOR(OBJ_nid2obj(NID_undef), Null)

NoEncode ==
    [op |-> "none", ctx |-> [pctx |-> [pkey |-> Null], digest |-> Null],
     before |-> NewAlgor,
     e |-> [pad_ok |-> TRUE, pss_ok |-> TRUE, init_ok |-> TRUE,
            alloc_fails |-> FALSE],
     res |-> Encoded(0, NoError, NewAlgor, Null)]

NoDecode ==
    [op |-> "none", sigalg |-> NewAlgor, pkey |-> Null, init_ok |-> FALSE,
     res |-> Decoded(0, NoError, NoCtx)]

DispatcherUnused ==
    /\ obj_xref = ClassicalTriples \cup OQSTriples("sha256")
    /\ algor = NewAlgor
    /\ encoded = NoEncode
    /\ decoded = NoDecode

(***************************************************************************)
(* The callers: TLS handshake code holding KeyShare objects and passing    *)
(* the bytes one produced to another, intact or damaged on the way.  The   *)
(* handshake is over with the first call that returns false, that is given *)
(* bytes other than the ones its peer sent, or that departs from the       *)
(* lifecycle Offer -> Finish / Accept: the objects see no further call.    *)
(***************************************************************************)
\* Per object: phase follows the calls made on it ("fresh": none that
\* generates or loads key material yet; "offered" / "loaded": a successful
\* Offer / Deserialize was its first such call; "accepted": Accept was;
\* "finished": Finish after that Offer or Deserialize; "other": any other
\* history).  offer, reply, secret, serialized are what those calls
\* produced; honest says the peer_key of its Accept or Finish was the other
\* object's offer or reply, unaltered.
NoTranscript ==
    [phase |-> "none", offer |-> <<>>, reply |-> <<>>, secret |-> <<>>,
     honest |-> FALSE, serialized |-> <<>>]

NoCall ==
    [op |-> "none", h |-> "a", phase |-> "none", peer |-> <<>>, rnd |-> 1,
     fail |-> "none", at |-> "self", honest |-> FALSE, pre |-> NoKeyShare,
     res |-> Res(FALSE, NoAlert, <<>>, <<>>, NoKeyShare)]

\* The steps of each backend's calls that can fail for an internal reason.
FailPointsOf(kind, op) ==
    CASE kind = "EC" /\ op \in {"Offer", "Finish"} -> {"alloc", "prim", "out"}
      [] kind = "EC" /\ op = "Serialize" -> {"out"}
      [] kind = "EC" /\ op = "Deserialize" -> {"alloc"}
      [] kind = "X25519" /\ op \in {"Offer", "Serialize"} -> {"out"}
      [] kind = "X25519" /\ op = "Finish" -> {"alloc"}
      [] kind = "CECPQ2" /\ op = "Offer" -> {"out"}
      [] kind = "CECPQ2" /\ op = "Accept" -> {"alloc", "out"}
      [] kind = "CECPQ2" /\ op = "Finish" -> {"alloc"}
      [] kind = "OQS" /\ op \in {"Offer", "Accept"} -> {"alloc", "prim", "out"}
      [] kind = "OQS" /\ op = "Finish" -> {"alloc", "prim"}
      [] kind = "HYBRID" /\ op \in {"Offer", "Accept"} -> {"alloc", "out"}
      [] kind = "HYBRID" /\ op = "Finish" -> {"out"}
      [] OTHER -> {}

\* The environments of a call op on k: a failure is injected only at a step
\* the call has; memory content and the Span build matter only where read.
EnvFor(k, op) ==
    { e \in Env :
        /\ e.fail = "none" => e.at = "self"
        /\ e.fail # "none" =>
              CASE e.at = "self" ->
                       e.fail \in FailPointsOf(k.kind,
                                     IF op = "Accept" /\ k.kind \in {"EC", "X25519"}
                                     THEN "Offer" ELSE op)
                [] e.at = "finish" ->
                       /\ op = "Accept"
                       /\ k.kind \in {"EC", "X25519"}
                       /\ e.fail \in FailPointsOf(k.kind, "Finish")
                [] e.at = "classical" ->
                       /\ k.kind = "HYBRID"
                       /\ op \in {"Offer", "Accept", "Finish"}
                       /\ e.fail \in FailPointsOf("EC", IF op = "Accept"
                                                         THEN "Offer" ELSE op)
                [] e.at = "pq" ->
                       /\ k.kind = "HYBRID"
                       /\ op \in {"Offer", "Accept", "Finish"}
                       /\ e.fail \in FailPointsOf("OQS", op)
        /\ ~(k.kind = "HYBRID" /\ op \in {"Accept", "Finish"}) => e.oob = "abort"
        /\ k.kind \notin {"HYBRID", "OQS"} => e.mem = 0 }

\* A message on the wire, as sent and as a faulty or hostile channel may
\* deliver it: cut short, extended by one or two bytes, or with a byte
\* changed.
CutPoints(m) ==
    {0, 1, Len(m) - 1}
        \cup (IF Len(m) >= 2 THEN { 2 + m[2], 2 + m[2] + 1 } ELSE {})

Damaged(m) ==
    { Prefix(m, n) : n \in { c \in CutPoints(m) : c >= 0 /\ c < Len(m) } }
        \cup { m \o <<7>>, m \o <<255, 0>> }
        \cup (IF Len(m) >= 2
              THEN { [m EXCEPT ![2] = (m[2] + 1) % 256],
                     [m EXCEPT ![1] = (m[1] + 1) % 256] }
              ELSE {})

\* An uncompressed point 0x04 || X || Y sent in compressed form instead:
\* 0x02 or 0x03, by the parity of Y, then X.
Compressed(m) ==
    IF Len(m) >= 3 /\ Len(m) % 2 = 1 /\ m[1] = 4
    THEN { << 2 + (m[Len(m)] % 2) >> \o SubSeq(m, 2, (Len(m) + 1) \div 2) }
    ELSE {}

Sent == { tr[h].offer : h \in Handles } \cup { tr[h].reply : h \in Handles }

PeerKeys == UNION { {m} \cup Damaged(m) \cup Compressed(m) : m \in Sent }

\* A serialized key share whose key was rewritten in storage: its last byte
\* replaced by zero, by the order of the curve, by 0xff.
Rewritten(m) ==
    IF Len(m) >= 1
    THEN { [m EXCEPT ![Len(m)] = b] :
             b \in {0, EC_GROUP_new_by_curve_name(NID_X9_62_prime256v1).order,
                    255} } \ {m}
    ELSE {}

\* What Deserialize is given: a serialized key share, as written or
\* damaged, once SSLKeyShare::Create(CBS *) has read the group id off it.
SerializedInputs ==
    { CBS_get_asn1_uint64(m).rest :
        m \in { d \in UNION { {m} \cup Damaged(m) \cup Rewritten(m) :
                                m \in { tr[h].serialized : h \in Handles } } :
                   CBS_get_asn1_uint64(d).ok } }

\* What SSLKeyShare::Create(CBS *) is given: a serialized key share as
\* written or damaged, or one whose leading INTEGER was replaced: by a
\* value above 0xffff, by an id no group has, by the id of a group that
\* cannot be deserialized, by the ids of the PQ groups.
Regrouped(m) ==
    IF CBS_get_asn1_uint64(m).ok
    THEN { g \o CBS_get_asn1_uint64(m).rest :
             g \in { <<2, 3, 1, 0, 0>>, CBB_add_asn1_uint64(22),
                     CBB_add_asn1_uint64(SSL_CURVE_CECPQ2),
                     CBB_add_asn1_uint64(SSL_CURVE_KYBER512),
                     CBB_add_asn1_uint64(SSL_CURVE_P256_KYBER512) } }
    ELSE {}

SerializedKeyShares ==
    UNION { {m} \cup Damaged(m) \cup Regrouped(m) \cup Rewritten(m) :
              m \in { tr[h].serialized : h \in Handles } }

Other(h) == CHOOSE o \in Handles : o # h

\* The algorithms of the PQ library the factory knows.
OQSAlgs == { OQSCases[i].oqs_meth : i \in 1..Len(OQSCases) }

\* The builds of the PQ library the handshakes run under: the full one, and
\* one without the algorithm the handshakes use.
HandshakeBuilds == { OQSAlgs, OQSAlgs \ {OQS_KEM_alg_kyber_512} }

\* No call of the factory or of a lookup was made.
NoLookup ==
    [op |-> "none", group_id |-> 0, nid |-> 0, name |-> "", len |-> 0,
     ok |-> FALSE, out_group_id |-> 0, out_name |-> "",
     key_share |-> NoKeyShare]

Init ==
    /\ ndebug \in BOOLEAN
    /\ ks = [h \in Handles |-> NoKeyShare]
    /\ tr = [h \in Handles |-> NoTranscript]
    /\ last = NoCall
    /\ over = FALSE
    /\ crashed = FALSE
    /\ oqs_enabled \in HandshakeBuilds
    /\ lookup = NoLookup
    /\ DispatcherUnused

\* The transcript t of an object after its call op returned r.
Transcript(t, op, r, honest) ==
    CASE op = "Offer" ->
             [t EXCEPT !.phase = IF t.phase = "fresh" /\ r.ok
                                 THEN "offered" ELSE "other",
                       !.offer = r.out]
      [] op = "Accept" ->
             [t EXCEPT !.phase = IF t.phase = "fresh"
                                 THEN "accepted" ELSE "other",
                       !.reply = r.out, !.secret = r.secret,
                       !.honest = honest]
      [] op = "Finish" ->
             [t EXCEPT !.phase = IF t.phase \in {"offered", "loaded"}
                                 THEN "finished"
                                 ELSE IF t.phase = "fresh" THEN "fresh"
                                 ELSE "other",
                       !.secret = r.secret, !.honest = honest]
      [] op = "Serialize" ->
             [t EXCEPT !.phase = IF t.phase \in {"fresh", "offered"}
                                 THEN t.phase ELSE "other",
                       !.serialized = r.out]
      [] op = "Deserialize" ->
             [t EXCEPT !.phase = IF t.phase = "fresh" /\ r.ok
                                 THEN "loaded" ELSE "other"]
      [] op = "CreateFromSerialized" ->
             [t EXCEPT !.phase = IF r.ok THEN "loaded" ELSE "none"]

\* Returns, were the objects of a handshake to share their members: the
\* call on h writes every object that exists.
Returns_shared(h, op, e, peer, honest, onpath, r) ==
    /\ ks' = [o \in Handles |->
                 IF o = h \/ ks[o] # NoKeyShare THEN r.self ELSE ks[o]]
    /\ tr' = [tr EXCEPT ![h] =
                 IF r.crash THEN [NoTranscript EXCEPT !.phase = "other"]
                 ELSE Transcript(tr[h], op, r, honest)]
    /\ last' = [op |-> op, h |-> h, phase |-> tr[h].phase, peer |-> peer,
                rnd |-> e.rnd, fail |-> e.fail, at |-> e.at, honest |-> honest,
                pre |-> ks[h], res |-> r]
    /\ over' = (r.crash \/ ~r.ok \/ ~onpath)
    /\ crashed' = r.crash
    /\ UNCHANGED <<ndebug, oqs_enabled, lookup>>
    /\ UNCHANGED x509vars

\* Call op on object h, in environment e with input peer, returns r; honest
\* says the input is what the other object sent, onpath that the call is
\* the next step of an unaltered handshake.
Returns(h, op, e, peer, honest, onpath, r) ==
    /\ ks' = [ks EXCEPT ![h] = r.self]
    /\ tr' = [tr EXCEPT ![h] =
                 IF r.crash THEN [NoTranscript EXCEPT !.phase = "other"]
                 ELSE Transcript(tr[h], op, r, honest)]
    /\ last' = [op |-> op, h |-> h, phase |-> tr[h].phase, peer |-> peer,
                rnd |-> e.rnd, fail |-> e.fail, at |-> e.at, honest |-> honest,
                pre |-> ks[h], res |-> r]
    /\ over' = (r.crash \/ ~r.ok \/ ~onpath)
    /\ crashed' = r.crash
    /\ UNCHANGED <<ndebug, oqs_enabled, lookup>>
    /\ UNCHANGED x509vars

Running == ~crashed /\ ~over

\* SSLKeyShare::Create, for the group the two ends negotiate.
Create(h) ==
    /\ Running
    /\ ks[h] = NoKeyShare
    /\ \E g \in ModelledGroups, mem \in MemFill :
          /\ \A o \in Handles : ks[o] # NoKeyShare => GroupID(ks[o]) = g
          /\ ks' = [ks EXCEPT ![h] = SSLKeyShare_Create(g, mem)]
          /\ tr' = [tr EXCEPT ![h] = [NoTranscript EXCEPT !.phase = "fresh"]]
    /\ UNCHANGED <<ndebug, last, over, crashed, oqs_enabled, lookup>>
    /\ UNCHANGED x509vars

Offer(h) ==
    /\ Running
    /\ ks[h] # NoKeyShare
    /\ \E e \in EnvFor(ks[h], "Offer") :
          Returns(h, "Offer", e, <<>>, FALSE, tr[h].phase = "fresh",
                  KeyShare_Offer(ks[h], e))

\* peer_key is the other object's offer, unaltered, and this object is new.
HonestAccept(h, peer_key) ==
    /\ tr[h].phase = "fresh"
    /\ tr[Other(h)].phase = "offered"
    /\ peer_key = tr[Other(h)].offer

Accept(h) ==
    /\ Running
    /\ ks[h] # NoKeyShare
    /\ \E e \in EnvFor(ks[h], "Accept"), peer_key \in PeerKeys :
          Returns(h, "Accept", e, peer_key, HonestAccept(h, peer_key),
                  HonestAccept(h, peer_key),
                  KeyShare_Accept(ks[h], e, peer_key))

\* peer_key is the reply the other object made to this object's offer.
HonestFinish(h, peer_key) ==
    /\ tr[h].phase = "offered"
    /\ tr[Other(h)].phase = "accepted"
    /\ tr[Other(h)].honest
    /\ peer_key = tr[Other(h)].reply

Finish(h) ==
    /\ Running
    /\ ks[h] # NoKeyShare
    /\ \E e \in EnvFor(ks[h], "Finish"), peer_key \in PeerKeys :
          Returns(h, "Finish", e, peer_key, HonestFinish(h, peer_key),
                  HonestFinish(h, peer_key),
                  KeyShare_Finish(ks[h], e, peer_key))

Serialize(h) ==
    /\ Running
    /\ ks[h] # NoKeyShare
    /\ \E e \in EnvFor(ks[h], "Serialize") :
          Returns(h, "Serialize", e, <<>>, FALSE, tr[h].phase = "offered",
                  KeyShare_Serialize(ks[h], e))

Deserialize(h) ==
    /\ Running
    /\ ks[h] # NoKeyShare
    /\ \E e \in EnvFor(ks[h], "Deserialize"), in \in SerializedInputs :
          Returns(h, "Deserialize", e, in, FALSE,
                  /\ tr[h].phase = "fresh"
                  /\ tr[Other(h)].phase = "offered"
                  /\ in = CBS_get_asn1_uint64(tr[Other(h)].serialized).rest,
                  KeyShare_Deserialize(ks[h], e, in))

\* SSLKeyShare::Create(CBS *): a key share handed over in serialized form.
CreateFromSerialized(h) ==
    /\ Running
    /\ ks[h] = NoKeyShare
    /\ \E in \in SerializedKeyShares, mem \in MemFill,
          e \in { x \in Env : /\ x.at = "self" /\ x.fail \in {"none", "alloc"}
                              /\ x.mem = 0 /\ x.oob = "abort" } :
          Returns(h, "CreateFromSerialized", e, in, FALSE,
                  /\ tr[Other(h)].phase = "offered"
                  /\ in = tr[Other(h)].serialized,
                  SSLKeyShare_Create_CBS(in, mem, e))

Next ==
    \E h \in Handles :
        \/ Create(h)
        \/ CreateFromSerialized(h)
        \/ Offer(h)
        \/ Accept(h)
        \/ Finish(h)
        \/ Serialize(h)
        \/ Deserialize(h)

Spec == Init /\ [][Next]_vars

(***************************************************************************)
(* The callers of the factory and of the lookups: configuration and        *)
(* handshake code asking for a group by id, by NID or by name, under any   *)
(* build of the PQ library.                                                *)
(***************************************************************************)
\* The builds: everything enabled, nothing, and all but one algorithm.
RegistryBuilds == { OQSAlgs, {} } \cup { OQSAlgs \ {a} : a \in OQSAlgs }

RegistryIds == { kNamedGroups[i].group_id : i \in 1..Len(kNamedGroups) }

\* The group ids asked for: those of the registry, their neighbours, and
\* the ends of the 16-bit range.
GroupProbes ==
    (RegistryIds \cup { g + 1 : g \in RegistryIds }
                 \cup { g - 1 : g \in RegistryIds } \cup {0, 65535})
        \cap 0..65535

\* The NIDs asked for: those of the registry, their successors, NID_undef.
NidProbes ==
    { kNamedGroups[i].nid : i \in 1..Len(kNamedGroups) }
        \cup { kNamedGroups[i].nid + 1 : i \in 1..Len(kNamedGroups) } \cup {0}

\* The names asked for, as (buffer, len): every name and alias exactly, cut
\* by one character, followed by a character that len does or does not
\* count, and spellings in another case.
RegistryNames ==
    { kNamedGroups[i].name : i \in 1..Len(kNamedGroups) }
        \cup { kNamedGroups[i].alias : i \in 1..Len(kNamedGroups) }

OtherSpellings ==
    { "", "p-256", "P256", "PRIME256V1", "X25519", "x25519", "cecpq2",
      "Kyber512", "KYBER512", "P256_kyber512", "SECP224R1", "Saber" }

NameProbes ==
    { [name |-> n, len |-> Len(n)] : n \in RegistryNames \cup OtherSpellings }
        \cup { [name |-> n, len |-> Len(n) - 1] : n \in RegistryNames }
        \cup { [name |-> n \o "x", len |-> Len(n)] : n \in RegistryNames }
        \cup { [name |-> n \o "x", len |-> Len(n) + 1] : n \in RegistryNames }

RegistryInit ==
    /\ ndebug = FALSE
    /\ ks = [h \in Handles |-> NoKeyShare]
    /\ tr = [h \in Handles |-> NoTranscript]
    /\ last = NoCall
    /\ over = FALSE
    /\ crashed = FALSE
    /\ oqs_enabled \in RegistryBuilds
    /\ lookup = NoLookup
    /\ DispatcherUnused

\* The functions keep no state: a behaviour makes one call.
Idle == lookup = NoLookup

\* SSLKeyShare::Create(uint16_t).
CreateGroup ==
    /\ Idle
    /\ \E g \in GroupProbes, mem \in MemFill :
          lookup' = [NoLookup EXCEPT
                        !.op = "Create", !.group_id = g,
                        !.ok = (SSLKeyShare_Create(g, mem) # NoKeyShare),
                        !.key_share = SSLKeyShare_Create(g, mem)]
    /\ UNCHANGED <<ndebug, ks, tr, last, over, crashed, oqs_enabled>>
    /\ UNCHANGED x509vars

NidToGroupId ==
    /\ Idle
    /\ \E nid \in NidProbes :
          lookup' = [NoLookup EXCEPT
                        !.op = "ssl_nid_to_group_id", !.nid = nid,
                        !.ok = ssl_nid_to_group_id(nid).ok,
                        !.out_group_id = ssl_nid_to_group_id(nid).out_group_id]
    /\ UNCHANGED <<ndebug, ks, tr, last, over, crashed, oqs_enabled>>
    /\ UNCHANGED x509vars

NameToGroupId ==
    /\ Idle
    /\ \E p \in NameProbes :
          lookup' = [NoLookup EXCEPT
                        !.op = "ssl_name_to_group_id",
                        !.name = p.name, !.len = p.len,
                        !.ok = ssl_name_to_group_id(p.name, p.len).ok,
                        !.out_group_id =
                            ssl_name_to_group_id(p.name, p.len).out_group_id]
    /\ UNCHANGED <<ndebug, ks, tr, last, over, crashed, oqs_enabled>>
    /\ UNCHANGED x509vars

GetCurveName ==
    /\ Idle
    /\ \E g \in GroupProbes :
          lookup' = [NoLookup EXCEPT
                        !.op = "SSL_get_curve_name", !.group_id = g,
                        !.ok = SSL_get_curve_name(g).ok,
                        !.out_name = SSL_get_curve_name(g).name]
    /\ UNCHANGED <<ndebug, ks, tr, last, over, crashed, oqs_enabled>>
    /\ UNCHANGED x509vars

RegistryNext ==
    \/ CreateGroup
    \/ NidToGroupId
    \/ NameToGroupId
    \/ GetCurveName

RegistrySpec == RegistryInit /\ [][RegistryNext]_vars

(***************************************************************************)
(* The callers of the dispatcher: a signer building the descriptor of what *)
(* it signs, and a verifier given a descriptor (the one just built, one    *)
(* altered on the way, or any other) with a public key.                    *)
(***************************************************************************)
\* The key types of the signing contexts and public keys tried.
KeyTypes ==
    {EVP_PKEY_RSA, EVP_PKEY_EC, EVP_PKEY_DSA, EVP_PKEY_ED25519}
        \cup OQSSigKeyTypes

\* The signing contexts: no key or a key of any type, RSA with either
\* padding, no digest or a digest.
SigningContexts ==
    { [pctx |-> [pkey |-> k, pad_mode |-> pad, saltlen |-> 32], digest |-> d] :
        k \in {Null} \cup { EVP_PKEY(t) : t \in KeyTypes },
        pad \in {RSA_PKCS1_PADDING, RSA_PKCS1_PSS_PADDING},
        d \in {Null} \cup { [nid |-> n] : n \in {"md5", "sha256"} } }

\* The environments that differ for a signing context: a failure is
\* injected only at a step the call can reach.
SignEnvFor(ctx) ==
    LET rsa == ctx.pctx.pkey # Null /\ ctx.pctx.pkey.type = EVP_PKEY_RSA
        pss == rsa /\ ctx.pctx.pad_mode = RSA_PKCS1_PSS_PADDING
    IN  { e \in X509Env :
            /\ e.init_ok
            /\ ~rsa => e.pad_ok /\ ~e.alloc_fails
            /\ ~pss => e.pss_ok
            /\ pss => ~e.alloc_fails
            /\ (~e.pad_ok) => (e.pss_ok /\ ~e.alloc_fails)
            /\ ctx.pctx.pkey # Null /\ ~rsa =>
                  ctx.pctx.pad_mode = RSA_PKCS1_PADDING }

\* The descriptors a signer starts from: a new one, and ones that held
\* another algorithm, with and without a parameter.
InitialAlgors ==
    { NewAlgor,
      X509_ALGOR(OBJ_nid2obj("sha1WithRSAEncryption"),
                 ASN1_TYPE(V_ASN1_NULL, Null)),
      X509_ALGOR(OBJ_nid2obj("ecdsa-with-SHA1"), Null) }

\* The parameter fields a descriptor may arrive with.
ParameterProbes ==
    { Null, ASN1_TYPE(V_ASN1_NULL, Null), ASN1_TYPE(V_ASN1_SEQUENCE, Null),
      ASN1_TYPE(V_ASN1_SEQUENCE, [hash |-> [nid |-> "sha256"], saltlen |-> 32]) }

\* The algorithms a descriptor may arrive with: signature NIDs of each
\* kind, a NID that is no signature, an OID the library does not know.
AlgorithmProbes ==
    { OBJ_nid2obj(n) :
        n \in { "md2WithRSAEncryption", "sha256WithRSAEncryption",
                "ecdsa-with-SHA256", NID_rsassaPss, NID_ED25519,
                "DILITHIUM2", "sha256", NID_undef } }
        \cup { [oid |-> "1.2.3.4"] }

\* The descriptors handed to the verifier: the signer's, as built or with
\* its parameter replaced; with no signer, any descriptor.
DescriptorProbes ==
    IF encoded.op = "none"
    THEN { X509_ALGOR(a, q) : a \in AlgorithmProbes, q \in ParameterProbes }
    ELSE { X509_ALGOR(algor.algorithm, q) :
             q \in {algor.parameter} \cup ParameterProbes }

\* The public keys handed to the verifier: the signer's, and one of each
\* kind.
PublicKeyProbes ==
    { EVP_PKEY(t) : t \in {EVP_PKEY_RSA, EVP_PKEY_EC, EVP_PKEY_ED25519,
                           "DILITHIUM2"} }
        \cup (IF encoded.ctx.pctx.pkey # Null
              THEN {encoded.ctx.pctx.pkey} ELSE {})

DispatcherInit ==
    /\ ndebug = FALSE
    /\ ks = [h \in Handles |-> NoKeyShare]
    /\ tr = [h \in Handles |-> NoTranscript]
    /\ last = NoCall
    /\ over = FALSE
    /\ crashed = FALSE
    /\ oqs_enabled = OQSAlgs
    /\ lookup = NoLookup
    /\ obj_xref \in XrefBuilds
    /\ algor \in InitialAlgors
    /\ encoded = NoEncode
    /\ decoded = NoDecode

\* x509_digest_sign_algorithm(ctx, algor) on the descriptor.
DigestSignAlgorithm ==
    /\ encoded.op = "none"
    /\ decoded.op = "none"
    /\ \E ctx \in SigningContexts :
          \E e \in SignEnvFor(ctx) :
              LET Returned(r) ==
                      /\ algor' = r.algor
                      /\ encoded' = [op |-> "sign", ctx |-> ctx,
                                     before |-> algor, e |-> e,
                                     res |-> r]
              IN  Returned(x509_digest_sign_algorithm(ctx, algor, e))
    /\ UNCHANGED <<ndebug, ks, tr, last, over, crashed, oqs_enabled, lookup>>
    /\ UNCHANGED <<obj_xref, decoded>>

\* x509_digest_verify_init(ctx, sigalg, pkey) on a new context.
DigestVerifyInit ==
    /\ decoded.op = "none"
    /\ \E sigalg \in DescriptorProbes, pkey \in PublicKeyProbes,
          init_ok \in BOOLEAN, pss_ok \in BOOLEAN :
          /\ OBJ_obj2nid(sigalg.algorithm) # NID_rsassaPss => pss_ok
          /\ LET Returned(r) ==
                     decoded' = [op |-> "verify", sigalg |-> sigalg,
                                 pkey |-> pkey, init_ok |-> init_ok,
                                 res |-> r]
             IN  Returned(x509_digest_verify_init(
                              NoCtx, sigalg, pkey,
                              [pad_ok |-> TRUE, pss_ok |-> pss_ok,
                               init_ok |-> init_ok, alloc_fails |-> FALSE]))
    /\ UNCHANGED <<ndebug, ks, tr, last, over, crashed, oqs_enabled, lookup>>
    /\ UNCHANGED <<obj_xref, algor, encoded>>

DispatcherNext ==
    \/ DigestSignAlgorithm
    \/ DigestVerifyInit

DispatcherSpec == DispatcherInit /\ [][DispatcherNext]_vars

(***************************************************************************)
(* Properties.  Each is about the most recent call (last) and what the     *)
(* objects' transcripts hold.                                              *)
(***************************************************************************)
\* The most recent call is op, made on a backend of class kind.
Called(op, kind) == last.op = op /\ last.pre.kind = kind

\* No step of the most recent call failed for an internal reason.
NoInternalFailure == last.fail = "none"

\* The most recent call returned false (the process did not die in it).
ReturnedFalse == ~last.res.ok /\ ~last.res.crash

\* The call was made where the lifecycle allows it.
InLifecycle ==
    \/ last.op = "Accept" /\ last.phase = "fresh"
    \/ last.op = "Finish" /\ last.phase \in {"offered", "loaded"}

\* C1 (agreement): in every group, when a client's Offer is accepted by a
\* server of the same group and the client finishes on the server's reply,
\* no message altered and no internal failure, Accept and Finish both
\* succeed and return the same, non-empty, secret.
C1_Agreement ==
    /\ (last.op = "Accept" /\ last.honest /\ NoInternalFailure) =>
          /\ last.res.ok
          /\ last.res.secret # <<>>
    /\ (last.op = "Finish" /\ last.honest /\ NoInternalFailure) =>
          /\ last.res.ok
          /\ last.res.secret # <<>>
          /\ last.res.secret = tr[Other(last.h)].secret

C1_Witness ==
    /\ Called("Finish", "HYBRID")
    /\ last.honest
    /\ last.res.ok
    /\ last.res.secret = tr[Other(last.h)].secret
    /\ Len(last.res.secret) > 0

\* The length of peer_key a backend of one algorithm expects.
SingleExpectedLen(k, op) ==
    CASE k.kind = "EC" -> 1 + 2 * FieldLen(EC_GROUP_new_by_curve_name(k.nid))
      [] k.kind = "X25519" -> X25519_KEY_LEN
      [] k.kind = "CECPQ2" ->
             X25519_KEY_LEN + (IF op = "Accept" THEN HRSS_PUBLIC_KEY_BYTES
                               ELSE HRSS_CIPHERTEXT_BYTES)
      [] k.kind = "OQS" ->
             IF op = "Accept" THEN k.kex_alg_.length_public_key
             ELSE k.kex_alg_.length_ciphertext

\* The length of peer_key a backend expects for Accept or Finish.
ExpectedLen(k, op) ==
    IF k.kind = "HYBRID"
    THEN 2 + SingleExpectedLen(k.classical_kex_, op)
           + 2 + SingleExpectedLen(k.pq_kex_, op)
    ELSE SingleExpectedLen(k, op)

\* C2 (alert discipline): in every backend, Accept and Finish given a
\* peer_key whose length is not the one the backend expects return false
\* with out_alert = DECODE_ERROR.
C2_WrongLengthIsDecodeError ==
    ( /\ last.op \in {"Accept", "Finish"}
      /\ InLifecycle
      /\ NoInternalFailure
      /\ Len(last.peer) # ExpectedLen(last.pre, last.op) )
        => /\ ReturnedFalse
           /\ last.res.alert = SSL_AD_DECODE_ERROR

\* peer_key is shorter than its two length fields say: len < 2 + len_A + 2 +
\* len_B, a missing length field included.
HybridTooShort(peer_key) ==
    \/ Len(peer_key) < 2
    \/ LET len_A == peer_key[1] * 256 + peer_key[2]
       IN  \/ Len(peer_key) < 2 + len_A + 2
           \/ Len(peer_key) < 2 + len_A + 2 + peer_key[2 + len_A + 1] * 256
                                            + peer_key[2 + len_A + 2]

\* C3 (hybrid validation): the hybrid's Accept and Finish given a peer_key
\* shorter than 2 + len_A + 2 + len_B return false with out_alert =
\* DECODE_ERROR and read no byte beyond peer_key.
C3_HybridValidatesLength ==
    ( /\ last.op \in {"Accept", "Finish"}
      /\ last.pre.kind = "HYBRID"
      /\ HybridTooShort(last.peer) )
        => /\ ReturnedFalse
           /\ last.res.alert = SSL_AD_DECODE_ERROR
           /\ ~last.res.oob

\* C4 (alert written): every Accept or Finish that returns false has
\* written out_alert: INTERNAL_ERROR when the peer's bytes were unaltered
\* and a step failed for an internal reason, DECODE_ERROR when no step did
\* and the call was made where the lifecycle allows it.
C4_AlertWrittenOnFailure ==
    ( /\ last.op \in {"Accept", "Finish"}
      /\ ReturnedFalse )
        => /\ last.res.alert \in {SSL_AD_DECODE_ERROR, SSL_AD_INTERNAL_ERROR}
           /\ (last.honest /\ ~NoInternalFailure) =>
                  last.res.alert = SSL_AD_INTERNAL_ERROR
           /\ (InLifecycle /\ NoInternalFailure) =>
                  last.res.alert = SSL_AD_DECODE_ERROR

\* C5 (hybrid framing): what a successful hybrid Offer or Accept appends is
\* u16(|A|) || A || u16(|B|) || B, lengths big-endian, A what the classical
\* sub-backend appended (an uncompressed point) and B what the PQ
\* sub-backend appended (a public key for Offer, a ciphertext for Accept).
C5_HybridFraming ==
    ( /\ last.op \in {"Offer", "Accept"}
      /\ last.pre.kind = "HYBRID"
      /\ last.res.ok )
        => LET out == last.res.out
               A == last.res.subC.out
               B == last.res.subP.out
           IN  /\ Len(out) = 2 + Len(A) + 2 + Len(B)
               /\ out[1] * 256 + out[2] = Len(A)
               /\ SubSeq(out, 3, 2 + Len(A)) = A
               /\ out[3 + Len(A)] * 256 + out[4 + Len(A)] = Len(B)
               /\ SubSeq(out, 5 + Len(A), Len(out)) = B
               /\ Len(A) = SingleExpectedLen(last.pre.classical_kex_, "Accept")
               /\ A[1] = 4
               /\ Len(B) = IF last.op = "Offer"
                           THEN last.pre.pq_kex_.kex_alg_.length_public_key
                           ELSE last.pre.pq_kex_.kex_alg_.length_ciphertext

C5_Witness ==
    /\ Called("Accept", "HYBRID")
    /\ last.res.ok
    /\ Len(last.res.subC.out) > 0
    /\ Len(last.res.subP.out) > 0

\* C6 (hybrid secret): the secret of a successful hybrid Accept or Finish is
\* the classical sub-backend's secret followed by the PQ sub-backend's, and
\* as long as the two together.
C6_HybridSecret ==
    ( /\ last.op \in {"Accept", "Finish"}
      /\ last.pre.kind = "HYBRID"
      /\ last.res.ok )
        => LET secret == last.res.secret
               classical == last.res.subC.secret
               pq == last.res.subP.secret
           IN  /\ Len(secret) = Len(classical) + Len(pq)
               /\ SubSeq(secret, 1, Len(classical)) = classical
               /\ SubSeq(secret, Len(classical) + 1, Len(secret)) = pq

C6_Witness ==
    /\ Called("Finish", "HYBRID")
    /\ last.res.ok
    /\ Len(last.res.subC.secret) > 0
    /\ Len(last.res.subP.secret) > 0
    /\ last.res.subC.secret # last.res.subP.secret

\* C7 (framing well-formedness): a hybrid Accept on an unaltered hybrid
\* offer, and a hybrid Finish on an unaltered hybrid reply, hand the
\* classical sub-backend exactly the first framed part and the PQ
\* sub-backend exactly the second, read nothing beyond peer_key, and both
\* sub-backends accept their part.
C7_HybridPartsAccepted ==
    ( /\ last.op \in {"Accept", "Finish"}
      /\ last.pre.kind = "HYBRID"
      /\ last.honest
      /\ NoInternalFailure )
        => LET A == last.res.subC.peer
               B == last.res.subP.peer
           IN  /\ last.res.subC.called /\ last.res.subC.ok
               /\ last.res.subP.called /\ last.res.subP.ok
               /\ ~last.res.oob
               /\ Len(A) = SingleExpectedLen(last.pre.classical_kex_, last.op)
               /\ Len(B) = SingleExpectedLen(last.pre.pq_kex_, last.op)
               /\ last.peer = << Len(A) \div 256, Len(A) % 256 >> \o A
                                 \o << Len(B) \div 256, Len(B) % 256 >> \o B

C7_Witness ==
    /\ Called("Finish", "HYBRID")
    /\ last.honest
    /\ last.res.subC.ok
    /\ last.res.subP.ok
    /\ last.res.subC.peer # <<>>
    /\ last.res.subP.peer # <<>>

C9_FreshCannotFinishOrSerialize ==
    ( /\ last.op \in {"Finish", "Serialize"}
      /\ last.phase = "fresh" )
        => ~last.res.ok

\* C10 (single use): in no backend does an Offer, Accept or Deserialize on
\* an object that is not Fresh succeed and replace the key material the
\* object holds.
C10_SingleUse ==
    ( /\ last.op \in {"Offer", "Accept", "Deserialize"}
      /\ last.phase \in {"offered", "loaded", "accepted", "finished"} )
        => ~(last.res.ok /\ last.res.self # last.pre)

\* The private key bytes a backend of one algorithm holds.
SinglePrivateKey(k) ==
    CASE k.kind \in {"EC", "X25519", "OQS"} -> k.private_key_
      [] k.kind = "CECPQ2" -> k.x25519_private_key_ \o k.hrss_private_key_
      [] OTHER -> <<>>

\* The private key bytes an object holds, its sub-backends' included.
PrivateKey(k) ==
    IF k.kind = "HYBRID"
    THEN SinglePrivateKey(k.classical_kex_) \o SinglePrivateKey(k.pq_kex_)
    ELSE SinglePrivateKey(k)

\* C11 (eager zeroisation): after a successful Accept or Finish the object
\* holds no private key material any more: every byte of it is zero or the
\* key is gone.
C11_KeyZeroisedAfterSuccess ==
    ( /\ last.op \in {"Accept", "Finish"}
      /\ last.res.ok )
        => \A i \in 1..Len(PrivateKey(last.res.self)) :
              PrivateKey(last.res.self)[i] = 0

\* What a caller sees of a Finish: the flag, the alert and the secret.
Outcome(r) ==
    [ok |-> r.ok, crash |-> r.crash, alert |-> r.alert, secret |-> r.secret]

\* An environment in which no step fails.
Calm == [rnd |-> 1, fail |-> "none", at |-> "self", mem |-> 0, oob |-> "abort"]

\* The environment of the most recent call, as far as a Finish depends on it.
LastEnv == [Calm EXCEPT !.fail = last.fail, !.at = last.at]

\* C12 (serialization round trip): an EC or X25519 object that has offered
\* and its copy made by SSLKeyShare::Create(CBS *) from what Serialize wrote
\* have the same group id, and Finish gives the same flag, alert and secret
\* on both, for every peer_key; a Finish made on such a copy returns what
\* the original returns.
C12_SerializeRoundTrip ==
    /\ ( /\ last.op = "Serialize" /\ last.phase = "offered" /\ last.res.ok
         /\ last.pre.kind \in {"EC", "X25519"} )
          => \A mem \in MemFill :
                /\ SSLKeyShare_Create_CBS(last.res.out, mem, Calm).ok
                /\ GroupID(SSLKeyShare_Create_CBS(last.res.out, mem, Calm).self)
                      = GroupID(last.pre)
                /\ \A peer_key \in PeerKeys, e \in EnvFor(last.pre, "Finish") :
                      Outcome(KeyShare_Finish(
                          SSLKeyShare_Create_CBS(last.res.out, mem, Calm).self,
                          e, peer_key))
                        = Outcome(KeyShare_Finish(last.res.self, e, peer_key))
    /\ ( /\ last.op = "Finish" /\ last.phase = "loaded"
         /\ tr[Other(last.h)].phase = "offered" )
          => /\ GroupID(last.pre) = GroupID(ks[Other(last.h)])
             /\ Outcome(last.res)
                   = Outcome(KeyShare_Finish(ks[Other(last.h)], LastEnv,
                                             last.peer))

C12_Witness ==
    /\ last.op = "Finish" /\ last.phase = "loaded"
    /\ tr[Other(last.h)].phase = "offered"
    /\ last.pre.kind = "X25519"
    /\ last.res.ok
    /\ last.res.secret # <<>>
    /\ last.res.secret = KeyShare_Finish(ks[Other(last.h)], Calm, last.peer).secret

\* The steps of SSLKeyShare::Create(CBS *) on input in: whether it starts
\* with an INTEGER, the group id read, whether a group of that id can be
\* created, and whether the new object's Deserialize takes the rest.
StartsWithInteger(in) == CBS_get_asn1_uint64(in).ok

GroupRead(in) == CBS_get_asn1_uint64(in).value

GroupCreated(in) == SSLKeyShare_Create(GroupRead(in), 0) # NoKeyShare

RestDeserialized(in, e) ==
    KeyShare_Deserialize(SSLKeyShare_Create(GroupRead(in), 0), e,
                         CBS_get_asn1_uint64(in).rest).ok

\* C13 (create from serialized): SSLKeyShare::Create(CBS *) returns no
\* object when its input does not start with an ASN.1 INTEGER, when the
\* integer exceeds 0xffff, when no object of that group id can be created,
\* or when the object's Deserialize of the rest fails; when all four steps
\* succeed it returns an object, of the group id read.
C13_CreateFromSerialized ==
    last.op = "CreateFromSerialized" =>
        /\ (last.peer = <<>> \/ last.peer[1] # 2) => ~StartsWithInteger(last.peer)
        /\ ~StartsWithInteger(last.peer) => ~last.res.ok
        /\ (StartsWithInteger(last.peer) /\ GroupRead(last.peer) > 65535)
              => ~last.res.ok
        /\ ( /\ StartsWithInteger(last.peer) /\ GroupRead(last.peer) <= 65535
             /\ ~GroupCreated(last.peer) ) => ~last.res.ok
        /\ ( /\ StartsWithInteger(last.peer) /\ GroupRead(last.peer) <= 65535
             /\ GroupCreated(last.peer)
             /\ ~RestDeserialized(last.peer, LastEnv) ) => ~last.res.ok
        /\ ( /\ StartsWithInteger(last.peer) /\ GroupRead(last.peer) <= 65535
             /\ GroupCreated(last.peer)
             /\ RestDeserialized(last.peer, LastEnv) )
              => /\ last.res.ok
                 /\ GroupID(last.res.self) = GroupRead(last.peer)
        /\ ~last.res.ok => ks[last.h] = NoKeyShare
        /\ last.res.ok => ks[last.h] # NoKeyShare

\* A serialized X25519 key share cut short: the group is created and its
\* Deserialize refuses the rest.
C13_Witness ==
    /\ last.op = "CreateFromSerialized"
    /\ StartsWithInteger(last.peer)
    /\ GroupRead(last.peer) = SSL_CURVE_X25519
    /\ GroupCreated(last.peer)
    /\ ~RestDeserialized(last.peer, LastEnv)
    /\ ~last.res.ok
    /\ ks[last.h] = NoKeyShare

(***************************************************************************)
(* Properties of the factory and of the lookups.  Each is about the most   *)
(* recent call (lookup) under the build of the PQ library (oqs_enabled).   *)
(***************************************************************************)
\* The group ids of the classical curves and of CECPQ2.
ClassicalGroups ==
    { SSL_CURVE.SECP224R1, SSL_CURVE.SECP256R1, SSL_CURVE.SECP384R1,
      SSL_CURVE.SECP521R1, SSL_CURVE.X25519, SSL_CURVE.CECPQ2 }

\* The registry entry of a group id (the first, as SSL_get_curve_name
\* finds it).
EntryOf(group_id) ==
    kNamedGroups[FirstOf({ i \in 1..Len(kNamedGroups) :
                              kNamedGroups[i].group_id = group_id })]

\* The entry named name.
EntryNamed(name) ==
    kNamedGroups[FirstOf({ i \in 1..Len(kNamedGroups) :
                              kNamedGroups[i].name = name })]

\* A hybrid entry is named pNNN_<kem>; <kem> names its pure-PQ counterpart.
IsHybridName(name) ==
    /\ Len(name) > 5
    /\ SubSeq(name, 1, 5) \in {"p256_", "p384_", "p521_"}

KemName(name) == SubSeq(name, 6, Len(name))

\* The PQ algorithm a backend was constructed with.
AlgorithmOf(k) ==
    CASE k.kind = "OQS" -> k.kex_alg_.method_name
      [] k.kind = "HYBRID" -> k.pq_kex_.kex_alg_.method_name
      [] OTHER -> "none"

\* The PQ algorithm the constructor of a PQ group is given.
AlgorithmFor(group_id) ==
    IF CaseOf(OQSCases, group_id) # {}
    THEN (CHOOSE c \in CaseOf(OQSCases, group_id) : TRUE).oqs_meth
    ELSE (CHOOSE c \in CaseOf(HybridCases, group_id) : TRUE).oqs_meth

\* C14 (PQ availability): for every pure-PQ and hybrid group id of the
\* registry, Create returns no object exactly when the group's algorithm is
\* disabled in the PQ library; when enabled it returns an OQSKeyShare (pure)
\* or a ClassicalWithOQSKeyShare (hybrid) of that algorithm; and a hybrid
\* group is available exactly when its pure counterpart is.
C14_PQAvailability ==
    ( /\ lookup.op = "Create"
      /\ lookup.group_id \in RegistryIds \ ClassicalGroups )
        => /\ lookup.ok <=> (lookup.key_share # NoKeyShare)
           /\ lookup.ok <=> (AlgorithmFor(lookup.group_id) \in oqs_enabled)
           /\ lookup.ok =>
                 /\ lookup.key_share.kind =
                       IF IsHybridName(EntryOf(lookup.group_id).name)
                       THEN "HYBRID" ELSE "OQS"
                 /\ AlgorithmOf(lookup.key_share)
                       = AlgorithmFor(lookup.group_id)
           /\ IsHybridName(EntryOf(lookup.group_id).name) =>
                 ( lookup.ok <=>
                     SSLKeyShare_Create(
                         EntryNamed(KemName(EntryOf(lookup.group_id).name))
                             .group_id, 0) # NoKeyShare )

\* In a build without Kyber768, the hybrid p384_kyber768 is refused.
C14_Witness ==
    /\ lookup.op = "Create"
    /\ lookup.group_id = SSL_CURVE.P384_KYBER768
    /\ oqs_enabled = OQSAlgs \ {"OQS_KEM_alg_kyber_768"}
    /\ ~lookup.ok
    /\ lookup.key_share = NoKeyShare

\* C15 (classical groups are unconditional): for SECP224R1, SECP256R1,
\* SECP384R1, SECP521R1, X25519 and CECPQ2, Create returns a backend under
\* every build of the PQ library, and the same one: an ECKeyShare of the
\* curve the registry names, an X25519KeyShare, a CECPQ2KeyShare.
C15_ClassicalUnconditional ==
    ( /\ lookup.op = "Create"
      /\ lookup.group_id \in ClassicalGroups )
        => /\ lookup.ok
           /\ lookup.key_share \in
                 { ECKeyShare(EntryOf(lookup.group_id).nid, lookup.group_id) }
                     \cup { X25519KeyShare(mem) : mem \in MemFill }
                     \cup { CECPQ2KeyShare(mem) : mem \in MemFill }
           /\ lookup.key_share.kind =
                 CASE lookup.group_id = SSL_CURVE.X25519 -> "X25519"
                   [] lookup.group_id = SSL_CURVE.CECPQ2 -> "CECPQ2"
                   [] OTHER -> "EC"

\* X25519 is created in a build of the PQ library that enables nothing.
C15_Witness ==
    /\ lookup.op = "Create"
    /\ lookup.group_id = SSL_CURVE.X25519
    /\ oqs_enabled = {}
    /\ lookup.ok
    /\ lookup.key_share.kind = "X25519"

\* C16 (unknown groups, group id kept): Create returns no object for a
\* 16-bit group id that no registry entry has, and every object it returns
\* reports the group id it was asked for.
C16_UnknownGroupAndGroupID ==
    lookup.op = "Create" =>
        /\ lookup.group_id \notin RegistryIds =>
              /\ ~lookup.ok
              /\ lookup.key_share = NoKeyShare
        /\ lookup.ok => GroupID(lookup.key_share) = lookup.group_id
        /\ lookup.group_id = 65535 =>
              \A g \in 0..65535 :
                  g \notin RegistryIds =>
                      SSLKeyShare_Create(g, 0) = NoKeyShare

\* 22 lies between SECP224R1 and SECP256R1 and is no group's id.
C16_Witness ==
    /\ lookup.op = "Create"
    /\ lookup.group_id = SSL_CURVE.SECP224R1 + 1
    /\ lookup.group_id \notin RegistryIds
    /\ ~lookup.ok
    /\ oqs_enabled = OQSAlgs

\* The curve a hybrid's name starts with.
CurveOfName(name) ==
    CASE SubSeq(name, 1, 5) = "p256_" -> SSL_CURVE.SECP256R1
      [] SubSeq(name, 1, 5) = "p384_" -> SSL_CURVE.SECP384R1
      [] SubSeq(name, 1, 5) = "p521_" -> SSL_CURVE.SECP521R1

\* C17 (hybrid pairing): the object created for a hybrid entry pNNN_<kem>
\* has as its classical sub-backend the ECKeyShare of SECPNNNR1 and as its
\* PQ sub-backend one of the algorithm the pure group <kem> is created with.
C17_HybridPairing ==
    ( /\ lookup.op = "Create"
      /\ lookup.group_id \in RegistryIds
      /\ IsHybridName(EntryOf(lookup.group_id).name)
      /\ lookup.ok )
        => /\ lookup.key_share.kind = "HYBRID"
           /\ lookup.key_share.classical_kex_ =
                 ECKeyShare(
                     EntryOf(CurveOfName(EntryOf(lookup.group_id).name)).nid,
                     CurveOfName(EntryOf(lookup.group_id).name))
           /\ lookup.key_share.pq_kex_.kind = "OQS"
           /\ SSLKeyShare_Create(
                  EntryNamed(KemName(EntryOf(lookup.group_id).name)).group_id,
                  0).kind = "OQS"
           /\ AlgorithmOf(lookup.key_share) =
                 AlgorithmOf(SSLKeyShare_Create(
                     EntryNamed(KemName(EntryOf(lookup.group_id).name))
                         .group_id, 0))

\* p521_kyber1024 is made of P-521 and the algorithm of kyber1024.
C17_Witness ==
    /\ lookup.op = "Create"
    /\ lookup.group_id = SSL_CURVE.P521_KYBER1024
    /\ lookup.ok
    /\ lookup.key_share.classical_kex_.group_id = SSL_CURVE.SECP521R1
    /\ AlgorithmOf(lookup.key_share) = "OQS_KEM_alg_kyber_1024"

\* C18 (lookup round trip): for every registry entry, SSL_get_curve_name of
\* its group id is its name, ssl_name_to_group_id of its name and of its
\* alias is its group id, and ssl_nid_to_group_id of its NID is its group
\* id.
C18_LookupRoundTrip ==
    \A i \in 1..Len(kNamedGroups) :
        /\ ( /\ lookup.op = "SSL_get_curve_name"
             /\ lookup.group_id = kNamedGroups[i].group_id )
              => /\ lookup.ok
                 /\ lookup.out_name = kNamedGroups[i].name
        /\ ( /\ lookup.op = "ssl_name_to_group_id"
             /\ lookup.name \in {kNamedGroups[i].name, kNamedGroups[i].alias}
             /\ lookup.len = Len(lookup.name) )
              => /\ lookup.ok
                 /\ lookup.out_group_id = kNamedGroups[i].group_id
        /\ ( /\ lookup.op = "ssl_nid_to_group_id"
             /\ lookup.nid = kNamedGroups[i].nid )
              => /\ lookup.ok
                 /\ lookup.out_group_id = kNamedGroups[i].group_id

\* The alias prime256v1 leads to the group named P-256.
C18_Witness ==
    /\ lookup.op = "ssl_name_to_group_id"
    /\ lookup.name = "prime256v1"
    /\ lookup.len = 10
    /\ lookup.ok
    /\ lookup.out_group_id = SSL_CURVE.SECP256R1
    /\ SSL_get_curve_name(lookup.out_group_id).name = "P-256"

\* Entry i has s as its name or alias, and s is exactly the first len
\* characters of the buffer name.
Names(i, name, len) ==
    { s \in {kNamedGroups[i].name, kNamedGroups[i].alias} :
        Len(s) = len /\ s = SubSeq(name, 1, len) }

\* C19 (name lookup is exact): ssl_name_to_group_id(name, len) succeeds
\* exactly when some entry has a name or alias of length len equal,
\* character by character, to the first len characters of name; an entry
\* whose name matches is the one returned; SSL_get_curve_name returns the
\* name of the entry, not its alias.
C19_NameLookupExact ==
    /\ lookup.op = "ssl_name_to_group_id" =>
          /\ lookup.ok <=>
                \E i \in 1..Len(kNamedGroups) :
                    Names(i, lookup.name, lookup.len) # {}
          /\ \A i \in 1..Len(kNamedGroups) :
                kNamedGroups[i].name \in Names(i, lookup.name, lookup.len)
                    => lookup.out_group_id = kNamedGroups[i].group_id
          /\ lookup.ok =>
                Names(FirstOf({ i \in 1..Len(kNamedGroups) :
                                  kNamedGroups[i].group_id = lookup.out_group_id }),
                      lookup.name, lookup.len) # {}
    /\ (lookup.op = "SSL_get_curve_name" /\ lookup.ok) =>
          /\ lookup.out_name = EntryOf(lookup.group_id).name
          /\ EntryOf(lookup.group_id).alias # EntryOf(lookup.group_id).name
                => lookup.out_name # EntryOf(lookup.group_id).alias

\* Of the buffer "kyber512x" the first 8 characters name a group.
C19_Witness ==
    /\ lookup.op = "ssl_name_to_group_id"
    /\ lookup.name = "kyber512x"
    /\ lookup.len = 8
    /\ lookup.ok
    /\ lookup.out_group_id = SSL_CURVE_KYBER512

\* The call returned false with DECODE_ERROR, read nothing beyond peer_key
\* and wrote neither a reply nor a secret.
RefusedAsMalformed ==
    /\ ~last.res.ok
    /\ ~last.res.crash
    /\ ~last.res.oob
    /\ last.res.alert = SSL_AD_DECODE_ERROR
    /\ last.res.out = <<>>
    /\ last.res.secret = <<>>

AcceptRegenerated ==
    LET Drawn(kp) ==
            /\ last.res.self.x25519_private_key_ = kp.private_key
            /\ last.res.ok =>
                  Prefix(last.res.out, X25519_KEY_LEN) = kp.public_value
            /\ last.res.self.hrss_private_key_ = last.pre.hrss_private_key_
            /\ \A m \in PeerKeys :
                  Len(m) = X25519_KEY_LEN + HRSS_CIPHERTEXT_BYTES =>
                      LET Later(f, x) ==
                              /\ f.ok = x.ok
                              /\ f.ok => Prefix(f.secret, X25519_KEY_LEN) = x.out
                      IN  Later(CECPQ2KeyShare_Finish(last.res.self, Calm, m),
                                X25519(kp.private_key,
                                       Prefix(m, X25519_KEY_LEN)))
    IN  Drawn(X25519_keypair(last.rnd))

\* C21 (CECPQ2 Accept regenerates the X25519 key): every CECPQ2 Accept
\* that got its secret buffer generates a fresh X25519 keypair, overwriting
\* the X25519 private key a prior Offer on the object stored, so that a
\* later Finish no longer uses the offered key; the HRSS private key stays.
C21_AcceptFreshX25519 ==
    (Called("Accept", "CECPQ2") /\ ~(last.at = "self" /\ last.fail = "alloc"))
        => AcceptRegenerated

\* C21 as stated, for every call: a CECPQ2 Accept generates a fresh X25519
\* keypair and overwrites the stored X25519 private key.
C21_EveryAcceptRegenerates ==
    Called("Accept", "CECPQ2") => AcceptRegenerated

\* An Accept on an object that had made an offer replaced the offered
\* X25519 key by another one and kept the HRSS key of the offer.
C21_Witness ==
    /\ Called("Accept", "CECPQ2")
    /\ last.phase = "offered"
    /\ last.res.ok
    /\ last.pre.x25519_private_key_ # Zeros(X25519_KEY_LEN)
    /\ last.res.self.x25519_private_key_ # last.pre.x25519_private_key_
    /\ last.res.self.hrss_private_key_ = last.pre.hrss_private_key_
    /\ last.pre.hrss_private_key_ # <<0>>
    /\ AcceptRegenerated

\* The primitive of the last call, on an OQSKeyShare, was reached (peer_key
\* had the length the call wants and the allocations succeeded) and failed.
OQSPrimitiveFailed(op) ==
    /\ Called(op, "OQS")
    /\ last.at = "self"
    /\ last.fail = "prim"
    /\ op = "Accept" => Len(last.peer) = last.pre.kex_alg_.length_public_key
    /\ op = "Finish" => /\ Len(last.peer) = last.pre.kex_alg_.length_ciphertext
                        /\ last.pre.private_key_ # <<>>

\* C22 (OQS primitive failures are internal): a failure of encapsulation in
\* OQSKeyShare Accept is reported as INTERNAL_ERROR; DECODE_ERROR is
\* reported only for a peer_key of the wrong length and for a failure of
\* decapsulation in Finish.
C22_PrimitiveFailuresInternal ==
    /\ OQSPrimitiveFailed("Accept") =>
          ReturnedFalse /\ last.res.alert = SSL_AD_INTERNAL_ERROR
    /\ ( /\ last.op \in {"Accept", "Finish"}
         /\ last.pre.kind = "OQS"
         /\ last.res.alert = SSL_AD_DECODE_ERROR ) =>
          \/ last.op = "Accept"
             /\ Len(last.peer) # last.pre.kex_alg_.length_public_key
          \/ last.op = "Finish"
             /\ Len(last.peer) # last.pre.kex_alg_.length_ciphertext
          \/ OQSPrimitiveFailed("Finish")

\* peer_key is empty, does not start with the byte 0x04, or is no encoding
\* of a point of the curve of k.
MalformedPoint(k, peer_key) ==
    \/ Len(peer_key) = 0
    \/ peer_key[1] # 4
    \/ ~EC_POINT_oct2point(EC_GROUP_new_by_curve_name(k.nid), peer_key).ok

\* The last call is a Finish on an ECKeyShare that holds a private key.
ECFinishCalled == Called("Finish", "EC") /\ last.pre.private_key_ # <<>>

\* ceil(field_bits / 8) for the curve of k.
FieldBytes(k) == (NumBits(EC_GROUP_new_by_curve_name(k.nid).p) + 7) \div 8

\* The secret of a successful EC Finish: the x-coordinate of
\* private_key_ * peer point, left-padded to FieldBytes.
ECSecret(k, peer_key) ==
    LET group == EC_GROUP_new_by_curve_name(k.nid)
        XOf(result) == BN_bn2bin_padded(FieldBytes(k), result[1]).bytes
    IN  XOf(EC_POINT_mul(group, k.private_key_[1],
                         EC_POINT_oct2point(group, peer_key).point))

ECSerializedLen(k) ==
    Len(CBB_add_asn1_uint64(k.group_id)) + 2
        + BN_num_bytes(EC_GROUP_new_by_curve_name(k.nid).order)

\* ECKeyShare k holding the private scalar d instead of its own.
WithScalar(k, d) == [k EXCEPT !.private_key_ = <<d>>]

\* C24 (EC Serialize length is scalar-independent): for a given curve the
\* output of EC Serialize has the same length for every private scalar
\* below the order, zero and the one-byte scalars alike, and every
\* serialization made in a run has that length.
C24_SerializeLengthConstant ==
    /\ \A h \in Handles :
          ks[h].kind = "EC" =>
              \A d \in 0..(EC_GROUP_new_by_curve_name(ks[h].nid).order - 1) :
                  LET Same(r) == r.ok /\ Len(r.out) = ECSerializedLen(ks[h])
                  IN  Same(ECKeyShare_Serialize(WithScalar(ks[h], d), Calm))
    /\ (Called("Serialize", "EC") /\ last.res.ok) =>
          Len(last.res.out) = ECSerializedLen(last.pre)

\* Two key shares of one curve holding different scalars were serialized:
\* the outputs differ and have the same length.
C24_Witness ==
    /\ \A h \in Handles : ks[h].kind = "EC" /\ tr[h].serialized # <<>>
    /\ ks["a"].private_key_ # ks["b"].private_key_
    /\ ks["a"].nid = ks["b"].nid
    /\ tr["a"].serialized # tr["b"].serialized
    /\ Len(tr["a"].serialized) = Len(tr["b"].serialized)
    /\ Len(tr["a"].serialized) = ECSerializedLen(ks["a"])

\* The last Encode was given a key of type t.
EncodedWith(t) ==
    /\ encoded.op = "sign"
    /\ encoded.ctx.pctx.pkey # Null
    /\ encoded.ctx.pctx.pkey.type = t

\* The last Encode was given an RSA key with the padding mode pad.
EncodedRSA(pad) ==
    EncodedWith(EVP_PKEY_RSA) /\ encoded.ctx.pctx.pad_mode = pad

\* The descriptor's parameter is an explicit NULL / is absent / is a
\* populated RSASSA-PSS-params.
ExplicitNull == algor.parameter = ASN1_TYPE(V_ASN1_NULL, Null)

Absent == algor.parameter = Null

PopulatedPSS ==
    /\ algor.algorithm = OBJ_nid2obj(NID_rsassaPss)
    /\ algor.parameter # Null
    /\ algor.parameter.type = V_ASN1_SEQUENCE
    /\ algor.parameter.value # Null

\* The parameter-encoding rule on the descriptor the last Encode left.
ParameterRule ==
    /\ EncodedRSA(RSA_PKCS1_PADDING) => ExplicitNull
    /\ EncodedRSA(RSA_PKCS1_PSS_PADDING) => PopulatedPSS
    /\ (\E t \in {EVP_PKEY_ED25519} \cup OQSSigKeyTypes : EncodedWith(t)) =>
          /\ algor.algorithm = OBJ_nid2obj(encoded.ctx.pctx.pkey.type)
          /\ Absent
    /\ (\E t \in KeyTypes \ {EVP_PKEY_RSA} : EncodedWith(t)) => Absent

\* C25 (parameter-encoding rule): whenever Encode succeeds, an RSA key
\* with PKCS#1 v1.5 padding has given the descriptor an explicit NULL
\* parameter, an EdDSA or PQ-signature key its own OID with the parameter
\* absent, any other non-RSA key an absent parameter, and an RSA key with
\* PSS padding the populated RSASSA-PSS-params of the RSA-PSS encoder.
C25_ParameterEncodingRule ==
    (encoded.op = "sign" /\ decoded.op = "none" /\ encoded.res.ret = 1)
        => ParameterRule

\* The last Encode failed with the error err and left the descriptor as it
\* was.
EncodeFailed(err) ==
    /\ encoded.res.ret = 0
    /\ encoded.res.err = err
    /\ algor = encoded.before

\* The key of the last Encode is of a type with its own branch: RSA with
\* PSS padding, EdDSA, a PQ signature scheme.
OwnOIDKey ==
    \E t \in {EVP_PKEY_ED25519} \cup OQSSigKeyTypes : EncodedWith(t)

\* The signature NID of the digest and key of the last Encode exists.
PairSupported ==
    OBJ_find_sigid_by_algs(EVP_MD_type(encoded.ctx.digest),
                           encoded.ctx.pctx.pkey.type).ok

\* The steps of Encode after the key was found and the branches with their
\* own OID were passed: the digest, then the signature OID.
DigestThenPair ==
    /\ encoded.ctx.digest = Null =>
          EncodeFailed(ASN1_R_CONTEXT_NOT_INITIALISED)
    /\ (encoded.ctx.digest # Null /\ ~PairSupported) =>
          EncodeFailed(ASN1_R_DIGEST_AND_KEY_TYPE_NOT_SUPPORTED)
    /\ (encoded.ctx.digest # Null /\ PairSupported) => encoded.res.ret = 1

\* The RSA-PSS and EdDSA / PQ branches of the last Encode, taken whatever
\* the digest: their outcome is that of the encoder or setter they call.
OwnBranches ==
    /\ EncodedRSA(RSA_PKCS1_PSS_PADDING) =>
          /\ encoded.res.ret = (IF encoded.e.pss_ok THEN 1 ELSE 0)
          /\ encoded.res.err \notin {ASN1_R_CONTEXT_NOT_INITIALISED,
                                     ASN1_R_DIGEST_AND_KEY_TYPE_NOT_SUPPORTED}
    /\ OwnOIDKey => encoded.res.ret = 1 /\ encoded.res.err = NoError

\* C26 (Encode error order): no key fails with CONTEXT_NOT_INITIALISED; for
\* an RSA key whose padding mode cannot be read Encode fails there, putting
\* no error itself; the RSA-PSS and EdDSA / PQ branches are decided before
\* the digest is consulted; otherwise a missing digest fails with
\* CONTEXT_NOT_INITIALISED and a pair with no signature OID with
\* DIGEST_AND_KEY_TYPE_NOT_SUPPORTED; each failure leaves the descriptor
\* unchanged.
C26_EncodeErrorOrder ==
    encoded.op = "sign" =>
        IF encoded.ctx.pctx.pkey = Null
        THEN EncodeFailed(ASN1_R_CONTEXT_NOT_INITIALISED)
        ELSE IF EncodedWith(EVP_PKEY_RSA) /\ ~encoded.e.pad_ok
        THEN EncodeFailed(NoError)
        ELSE /\ OwnBranches
             /\ (encoded.res.ret = 0 /\ ~EncodedRSA(RSA_PKCS1_PSS_PADDING)) =>
                   algor = encoded.before
             /\ ~(EncodedRSA(RSA_PKCS1_PSS_PADDING) \/ OwnOIDKey) =>
                   DigestThenPair

\* C26 as stated: after the key, only the RSA-PSS and EdDSA / PQ branches
\* come before the digest and the signature OID.
C26_EncodeErrorOrderAsStated ==
    encoded.op = "sign" =>
        IF encoded.ctx.pctx.pkey = Null
        THEN EncodeFailed(ASN1_R_CONTEXT_NOT_INITIALISED)
        ELSE /\ (encoded.e.pad_ok => OwnBranches)
             /\ ~(EncodedRSA(RSA_PKCS1_PSS_PADDING) \/ OwnOIDKey) =>
                   DigestThenPair

\* An EC key with a digest that has no ECDSA signature OID: Encode fails
\* with DIGEST_AND_KEY_TYPE_NOT_SUPPORTED and the descriptor, which held
\* another algorithm with a parameter, is as before.
C26_Witness ==
    /\ EncodedWith(EVP_PKEY_EC)
    /\ encoded.ctx.digest = [nid |-> "md5"]
    /\ encoded.before.parameter # Null
    /\ EncodeFailed(ASN1_R_DIGEST_AND_KEY_TYPE_NOT_SUPPORTED)

\* The last Decode-and-init failed with the error err and left the context
\* uninitialised.
DecodeFailed(err) ==
    /\ decoded.res.ret = 0
    /\ decoded.res.err = err
    /\ decoded.res.ctx = NoCtx

\* What the signature OID of the last Decode-and-init stands for.
SigAlgNid == OBJ_obj2nid(decoded.sigalg.algorithm)

SigAlg == OBJ_find_sigid_algs(SigAlgNid)

\* The checks of Decode-and-init, each under the ones before it passing.
UnknownSignature == ~SigAlg.ok

WrongKeyType == SigAlg.ok /\ SigAlg.pkey_nid # decoded.pkey.type

NoCustomParameters ==
    /\ SigAlg.ok
    /\ SigAlg.pkey_nid = decoded.pkey.type
    /\ SigAlg.digest_nid = NID_undef
    /\ SigAlgNid \notin {NID_rsassaPss, NID_ED25519}

UnknownDigest ==
    /\ SigAlg.ok
    /\ SigAlg.pkey_nid = decoded.pkey.type
    /\ SigAlg.digest_nid # NID_undef
    /\ EVP_get_digestbynid(SigAlg.digest_nid) = Null

\* C27 (Decode-and-init check order): an unknown signature OID fails with
\* UNKNOWN_SIGNATURE_ALGORITHM; else a key NID other than the public key's
\* type fails with WRONG_PUBLIC_KEY_TYPE whatever the parameter; else an
\* undefined digest NID with an OID that is neither RSA-PSS nor EdDSA fails
\* with UNKNOWN_SIGNATURE_ALGORITHM; else a digest NID that resolves to no
\* digest fails with UNKNOWN_MESSAGE_DIGEST_ALGORITHM; the context is
\* initialised only if none of these fails.
C27_DecodeCheckOrder ==
    decoded.op = "verify" =>
        /\ UnknownSignature => DecodeFailed(ASN1_R_UNKNOWN_SIGNATURE_ALGORITHM)
        /\ WrongKeyType => DecodeFailed(ASN1_R_WRONG_PUBLIC_KEY_TYPE)
        /\ NoCustomParameters =>
              DecodeFailed(ASN1_R_UNKNOWN_SIGNATURE_ALGORITHM)
        /\ UnknownDigest =>
              DecodeFailed(ASN1_R_UNKNOWN_MESSAGE_DIGEST_ALGORITHM)
        /\ decoded.res.ctx # NoCtx =>
              /\ decoded.res.ret = 1
              /\ ~UnknownSignature /\ ~WrongKeyType
              /\ ~NoCustomParameters /\ ~UnknownDigest

\* A descriptor whose digest the library does not implement, itself with
\* an unexpected parameter, is given with a key of another type: the key
\* type is what is reported.
C27_Witness ==
    /\ decoded.op = "verify"
    /\ SigAlgNid = "md2WithRSAEncryption"
    /\ decoded.sigalg.parameter = ASN1_TYPE(V_ASN1_SEQUENCE, Null)
    /\ decoded.pkey.type = EVP_PKEY_EC
    /\ WrongKeyType
    /\ DecodeFailed(ASN1_R_WRONG_PUBLIC_KEY_TYPE)

\* The last Decode-and-init was given an EdDSA descriptor and a public key
\* of that type.
EdDSAWithMatchingKey ==
    /\ decoded.op = "verify"
    /\ SigAlgNid = NID_ED25519
    /\ SigAlg.ok
    /\ decoded.pkey.type = SigAlg.pkey_nid

\* C28 (EdDSA parameter must be absent): for an EdDSA descriptor with a
\* matching public key, Decode-and-init succeeds, initialising the context
\* with no hash, only if the parameter field is absent; any present
\* parameter, an explicit NULL included, fails with INVALID_PARAMETER and
\* leaves the context uninitialised.
C28_EdDSAParameterAbsent ==
    EdDSAWithMatchingKey =>
        /\ decoded.sigalg.parameter # Null =>
              DecodeFailed(X509_R_INVALID_PARAMETER)
        /\ decoded.res.ret = 1 =>
              /\ decoded.sigalg.parameter = Null
              /\ decoded.res.ctx # NoCtx
              /\ decoded.res.ctx.initialised
              /\ decoded.res.ctx.digest = Null
              /\ decoded.res.ctx.pkey = decoded.pkey
        /\ (decoded.sigalg.parameter = Null /\ decoded.init_ok) =>
              decoded.res.ret = 1

\* An Ed25519 descriptor carrying an explicit NULL is refused with a
\* matching key.
C28_Witness ==
    /\ EdDSAWithMatchingKey
    /\ decoded.pkey.type = EVP_PKEY_ED25519
    /\ decoded.sigalg.parameter = ASN1_TYPE(V_ASN1_NULL, Null)
    /\ DecodeFailed(X509_R_INVALID_PARAMETER)

\* The call on k alone: what op returns given k's own members, the
\* environment and the input, and nothing else.
Alone(op, k, e, peer) ==
    CASE op = "Offer" -> KeyShare_Offer(k, e)
      [] op = "Accept" -> KeyShare_Accept(k, e, peer)
      [] op = "Finish" -> KeyShare_Finish(k, e, peer)
      [] op = "Serialize" -> KeyShare_Serialize(k, e)
      [] op = "Deserialize" -> KeyShare_Deserialize(k, e, peer)

\* The environments the call recorded in c may have run in.
EnvsOf(c) ==
    { e \in Env : e.rnd = c.rnd /\ e.fail = c.fail /\ e.at = c.at }

\* This step is a call on h, or h's construction.
CalledOn(h) ==
    \/ last' # last /\ last'.h = h
    \/ last' = last /\ tr'[h] # tr[h]

\* The step's call returned, and left in its object, what the same call
\* makes of that object alone.
AsAlone(h) ==
    last' # last =>
        /\ last'.pre = ks[h]
        /\ ks'[h] = last'.res.self
        /\ IF last'.op = "CreateFromSerialized"
           THEN \E e \in EnvsOf(last'), mem \in MemFill :
                   last'.res = SSLKeyShare_Create_CBS(last'.peer, mem, e)
           ELSE \E e \in EnvsOf(last') :
                   last'.res = Alone(last'.op, ks[h], e, last'.peer)

DefaultAcceptReturned ==
    /\ last.op = "Accept"
    /\ last.pre.kind \in {"EC", "X25519"}
    /\ ~last.res.crash

\* The environment of the last call on an EC or X25519 object.
AcceptEnv ==
    [rnd |-> last.rnd, fail |-> last.fail, at |-> last.at, mem |-> 0,
     oob |-> "abort"]

\* The Offer the last Accept ran, and the Finish it runs on what that Offer
\* left.
OfferOfAccept == Single_Offer(last.pre, AcceptEnv)

FinishOfAccept ==
    Single_Finish(OfferOfAccept.self, SubEnv(AcceptEnv, "finish", last.rnd),
                  last.peer)

\* C30: the default Accept, of the EC and X25519 backends: if its Offer
\* fails, Finish is not run (the object is as Offer left it, no secret is
\* produced) and the call returns false with alert INTERNAL_ERROR;
\* otherwise the return value, the alert and the secret (and the object)
\* are those of Finish on peer_key.
C30_DefaultAccept ==
    DefaultAcceptReturned /\ ~OfferOfAccept.crash =>
        IF ~OfferOfAccept.ok
        THEN /\ ~last.res.ok
             /\ last.res.alert = SSL_AD_INTERNAL_ERROR
             /\ last.res.secret = <<>>
             /\ ks[last.h] = OfferOfAccept.self
        ELSE /\ ~FinishOfAccept.crash
             /\ FinishOfAccept.alert # NoAlert
             /\ last.res.ok = FinishOfAccept.ok
             /\ last.res.alert = FinishOfAccept.alert
             /\ last.res.secret = FinishOfAccept.secret
             /\ last.res.out = OfferOfAccept.out
             /\ ks[last.h] = FinishOfAccept.self

\* The Offer inside an Accept failed after it had generated the key, on a
\* peer_key its Finish would have refused as malformed.
C30_Witness ==
    /\ DefaultAcceptReturned
    /\ ~OfferOfAccept.crash
    /\ ~OfferOfAccept.ok
    /\ OfferOfAccept.self # last.pre
    /\ FinishOfAccept.alert = SSL_AD_DECODE_ERROR
    /\ last.res.alert = SSL_AD_INTERNAL_ERROR

\* d is a private scalar of the curve of k: 1 <= d < order.
InRange(k, d) ==
    d >= 1 /\ d < EC_GROUP_new_by_curve_name(k.nid).order

\* The scalar the EC object of the last call holds after it.
HeldScalar == last.res.self.private_key_[1]

\* The last call ran ECKeyShare::Offer, directly or inside the default
\* Accept, on an object without a key, and left a BIGNUM in it.
ECGenerated ==
    /\ Called("Offer", "EC") \/ Called("Accept", "EC")
    /\ ~last.res.crash
    /\ last.pre.private_key_ = <<>>
    /\ last.res.self.private_key_ # <<>>

\* The last call loaded an EC object from the OCTET STRING octets.
ECLoaded(octets) ==
    /\ \/ Called("Deserialize", "EC") /\ octets = last.peer
       \/ /\ last.op = "CreateFromSerialized"
          /\ last.res.self.kind = "EC"
          /\ octets = CBS_get_asn1_uint64(last.peer).rest
    /\ last.res.ok

\* What the last Deserialize or Create(CBS *) was given after the group id.
LoadedOctets ==
    IF last.op = "CreateFromSerialized"
    THEN CBS_get_asn1_uint64(last.peer).rest
    ELSE last.peer

RoundTrip ==
    /\ encoded.op = "sign"
    /\ encoded.res.ret = 1
    /\ ~EncodedRSA(RSA_PKCS1_PSS_PADDING)
    /\ decoded.op = "verify"
    /\ decoded.sigalg = algor
    /\ decoded.pkey = encoded.ctx.pctx.pkey

\* The descriptor holds the OID and the parameter type Encode selected.
DescriptorStored ==
    /\ encoded.res.selected # Null
    /\ algor.algorithm = OBJ_nid2obj(encoded.res.selected.nid)
    /\ IF encoded.res.selected.paramtype = V_ASN1_UNDEF
       THEN algor.parameter = Null
       ELSE algor.parameter = ASN1_TYPE(encoded.res.selected.paramtype, Null)

\* The library's table gives the OID of the descriptor a digest it has.
TableHasDigest ==
    /\ OBJ_find_sigid_algs(OBJ_obj2nid(algor.algorithm)).ok
    /\ OBJ_find_sigid_algs(OBJ_obj2nid(algor.algorithm)).digest_nid
           \in Digests

DecodedHashThenSign ==
    /\ decoded.op = "verify"
    /\ SigAlg.ok
    /\ SigAlg.digest_nid # NID_undef

\* The environment of the last Decode.
DecodeEnv ==
    [pad_ok |-> TRUE, pss_ok |-> TRUE, init_ok |-> decoded.init_ok,
     alloc_fails |-> FALSE]

\* The same Decode, had the descriptor come with parameter q.
DecodeWithParameter(q) ==
    x509_digest_verify_init(NoCtx, [decoded.sigalg EXCEPT !.parameter = q],
                            decoded.pkey, DecodeEnv)

\* C33: for a signature OID with a digest, Decode-and-init returns the same
\* (result, error and context) whatever the descriptor's parameter is:
\* absent, explicit NULL or anything else, for RSA and other keys.
C33_ParameterIgnored ==
    DecodedHashThenSign =>
        \A q \in ParameterProbes : DecodeWithParameter(q) = decoded.res

\* An RSA signature descriptor whose parameter is a SEQUENCE, neither
\* absent nor NULL, was accepted with an RSA key.
C33_Witness ==
    /\ DecodedHashThenSign
    /\ decoded.pkey.type = EVP_PKEY_RSA
    /\ decoded.sigalg.parameter # Null
    /\ decoded.sigalg.parameter.type = V_ASN1_SEQUENCE
    /\ decoded.res.ret = 1

\* Both sub-backends of the hybrid of the last call were called and
\* succeeded.
BothSucceeded ==
    /\ last.res.subC.called /\ last.res.subC.ok
    /\ last.res.subP.called /\ last.res.subP.ok

\* C34: the hybrid writes its output only once both sub-backends have
\* succeeded: Offer appends nothing to out, and Accept nothing to
\* out_public_key and nothing to out_secret, unless both did; the PQ
\* sub-backend is called only after the classical one succeeded, and is
\* left untouched otherwise.
C34_HybridOutputAtomic ==
    Called("Offer", "HYBRID") \/ Called("Accept", "HYBRID") =>
        /\ last.res.out # <<>> => BothSucceeded
        /\ last.res.secret # <<>> => BothSucceeded
        /\ ~last.res.crash =>
              /\ last.res.subP.called =>
                    last.res.subC.called /\ last.res.subC.ok
              /\ ~last.res.subP.called =>
                    last.res.self.pq_kex_ = last.pre.pq_kex_

\* A hybrid Accept whose classical part had produced its reply and secret
\* when the PQ part failed: nothing of them was written.
C34_Witness ==
    /\ Called("Accept", "HYBRID")
    /\ ~last.res.crash
    /\ last.res.subC.called /\ last.res.subC.ok
    /\ last.res.subC.out # <<>> /\ last.res.subC.secret # <<>>
    /\ last.res.subP.called /\ ~last.res.subP.ok
    /\ last.res.out = <<>>
    /\ last.res.secret = <<>>

\* The bytes of peer_key its two length fields span, 2 + len_A + 2 + len_B,
\* when peer_key has that many; 0 otherwise.
FramedLen(peer_key) ==
    LET len_A == IF Len(peer_key) >= 2
                 THEN peer_key[1] * 256 + peer_key[2] ELSE 0
        has_B == Len(peer_key) >= 2 /\ Len(peer_key) >= 2 + len_A + 2
        len_B == IF has_B
                 THEN peer_key[2 + len_A + 1] * 256 + peer_key[2 + len_A + 2]
                 ELSE 0
    IN  IF has_B /\ Len(peer_key) >= 2 + len_A + 2 + len_B
        THEN 2 + len_A + 2 + len_B ELSE 0

\* The last call was a hybrid Accept or Finish on a well-framed peer_key
\* followed by extra bytes.
HybridGivenExtraBytes ==
    /\ Called("Accept", "HYBRID") \/ Called("Finish", "HYBRID")
    /\ FramedLen(last.peer) > 0
    /\ Len(last.peer) > FramedLen(last.peer)

\* What the caller sees of a call and what it leaves in the object.
Seen(r) ==
    [ok |-> r.ok, crash |-> r.crash, alert |-> r.alert, out |-> r.out,
     secret |-> r.secret, self |-> r.self]

\* C35: hybrid Accept and Finish use the first 2 + len_A + 2 + len_B bytes
\* of peer_key only: given a well-framed peer_key followed by extra bytes
\* the call returns (success flag, alert, reply, secret) and leaves in the
\* object what it does given the peer_key without them.
C35_TrailingBytesIgnored ==
    HybridGivenExtraBytes =>
        \E e \in EnvsOf(last) :
            Seen(last.res) =
                Seen(Alone(last.op, last.pre, e,
                           Prefix(last.peer, FramedLen(last.peer))))

\* A well-framed hybrid peer_key followed by an extra byte was accepted and
\* a secret derived from it.
C35_Witness ==
    /\ HybridGivenExtraBytes
    /\ last.res.ok
    /\ last.res.secret # <<>>
    /\ last.res.subP.peer # <<>>

\* Encode returned success having selected an OID and a parameter type
\* itself (any path but RSA-PSS).
EncodeSucceeded ==
    /\ encoded.op = "sign"
    /\ encoded.res.ret = 1
    /\ encoded.res.selected # Null

\* C36: whenever Encode returns success, the descriptor holds the OID and
\* the parameter type Encode selected, on the hash-then-sign path as on
\* the EdDSA / PQ path.
C36_SuccessMeansStored ==
    EncodeSucceeded => DescriptorStored

=============================================================================
